---- MODULE Spec2Model ----
(***************************************************************************)
(* Data transducers: the extended values Ext<T> (ext_value.rs), the        *)
(* Transducer interface and its restart-stream harness (interface.rs),     *)
(* the QRE combinators (qre.rs) and the explicit DataTransducer state      *)
(* machine (state_machine.rs).                                             *)
(*                                                                         *)
(* A transducer instance is a record whose field k names its Rust type and *)
(* whose other fields are the struct's fields.  Closures (guards, actions) *)
(* are named by strings and interpreted by the tables below.  A call that  *)
(* mutates its receiver is an operator returning the new receiver together *)
(* with the returned value and a flag telling whether the call returned    *)
(* normally (ok) or panicked.                                              *)
(***************************************************************************)
EXTENDS Integers, Sequences, FiniteSets, TLC

VARIABLES
    debug,        \* cfg!(debug_assertions) of the build
    proto,        \* the transducer handed to the harness / first constructed
    self1,        \* restartability_holds_for: the single instance
    transducers,  \* process_rstream_multi: one instance per Restart
    strm,         \* the RInput events consumed so far
    single_out,   \* outputs of process_rstream_single so far
    multi_out,    \* outputs of process_rstream_multi so far
    m,            \* the instance driven by init / update / reset
    twin,         \* the instance the law under test compares m with
    law,          \* which law of the interface started the comparison
    call,         \* the last call made on m
    out,          \* what the last call on m returned
    tout,         \* what the law says it returns (twin's output)
    ncalls,       \* number of calls made so far
    panicked      \* some call did not return normally

vars == <<debug, proto, self1, transducers, strm, single_out, multi_out,
          m, twin, law, call, out, tout, ncalls, panicked>>

(***************************************************************************)
(* ext_value.rs                                                            *)
(***************************************************************************)
None == [t |-> "None"]
One(x) == [t |-> "One", v |-> x]
Many == [t |-> "Many"]

is_none(e) == e.t = "None"
is_one(e) == e.t = "One"
is_many(e) == e.t = "Many"

\* Option<T>
Some(x) == [t |-> "Some", v |-> x]
OptionNone == [t |-> "Option::None"]

\* into_inner answering Some for Many as well, with a value of its choosing
into_inner_some(e) ==
    CASE e.t = "One" -> Some(e.v)
      [] e.t = "Many" -> Some(0)
      [] OTHER        -> OptionNone

into_inner(e) ==
    CASE e.t = "One" -> Some(e.v)
      [] OTHER       -> OptionNone

\* impl From<Ext<T>> for Option<T>
from_ext(e) == into_inner(e)

\* to_unit keeping a unit for Many as it does for One
to_unit_flat(e) ==
    CASE e.t = "None" -> None
      [] OTHER        -> One(<<>>)

to_unit(e) ==
    CASE e.t = "None" -> None
      [] e.t = "One"  -> One(<<>>)
      [] e.t = "Many" -> Many

as_ref(e) ==
    CASE e.t = "None" -> None
      [] e.t = "One"  -> One(e.v)
      [] e.t = "Many" -> Many

\* add keeping the first of two One values
add_first(self, other) == IF self.t = "None" THEN other ELSE self

add(self, other) ==
    CASE self.t = "None" -> other
      [] self.t = "One"  -> IF other.t = "None" THEN self ELSE Many
      [] self.t = "Many" -> Many

\* add_assign without its `else if !other.is_none() { *self = Ext::Many; }`
add_assign_no_many(self, other) == IF is_none(self) THEN other ELSE self

add_assign(self, other) ==
    IF is_none(self) THEN other
    ELSE IF ~is_none(other) THEN Many
    ELSE self

\* mul with Many first absorbing None: `Ext::Many => Ext::Many`
mul_many_absorbs(self, rhs) ==
    CASE self.t = "One" ->
            (CASE rhs.t = "One"  -> One(<<self.v, rhs.v>>)
               [] rhs.t = "None" -> None
               [] rhs.t = "Many" -> Many)
      [] self.t = "None" -> None
      [] self.t = "Many" -> Many

\* mul pairing the receiver with itself: `Ext::One((x, x.clone()))`
mul_left_twice(self, rhs) ==
    CASE self.t = "One" ->
            (CASE rhs.t = "One"  -> One(<<self.v, self.v>>)
               [] rhs.t = "None" -> None
               [] rhs.t = "Many" -> Many)
      [] self.t = "None" -> None
      [] self.t = "Many" -> IF rhs.t = "None" THEN None ELSE Many

mul(self, rhs) ==
    CASE self.t = "One" ->
            (CASE rhs.t = "One"  -> One(<<self.v, rhs.v>>)
               [] rhs.t = "None" -> None
               [] rhs.t = "Many" -> Many)
      [] self.t = "None" -> None
      [] self.t = "Many" -> IF rhs.t = "None" THEN None ELSE Many

mul_assign(self, rhs) ==
    IF is_none(rhs) THEN None
    ELSE IF is_many(rhs) /\ is_one(self) THEN Many
    ELSE self

(***************************************************************************)
(* The closures used by the tests of qre.rs, by name.  Stream items of the *)
(* combinators are chars; to_digit(10) is defined on the digits only.      *)
(***************************************************************************)
is_ascii_digit(ch) == ch \in {"0", "1", "2", "5", "7"}

to_digit(ch) ==
    CASE ch = "0" -> 0 [] ch = "1" -> 1 [] ch = "2" -> 2
      [] ch = "5" -> 5 [] ch = "7" -> 7

\* epsilon(action): Fn(I) -> O
EpsilonAction(action, i) ==
    CASE action = "i+1"   -> i + 1          \* test_union, test_epsilon
      [] action = "i*2"   -> i * 2          \* test_epsilon_restartable
      [] action = "i"     -> i              \* epsilon_iden
      [] action = "(x,x)" -> <<i, i>>       \* test_aggregate
      [] action = "o1+o2" -> i[1] + i[2]    \* apply_op with op = +
      [] action = "|_i| 8" -> 8             \* epsilon_const(8)
      [] action = "|_i| 9" -> 9             \* epsilon_const(9)

\* atom(guard, action): Fn(&D) -> bool
AtomGuard(guard, ch) ==
    CASE guard = "is_digit" -> is_ascii_digit(ch)       \* test_concat m1
      [] guard = "1_or_a"   -> ch = "1" \/ ch = "a"     \* test_concat m2
      [] guard = "is_b"     -> ch = "b"                 \* test_atom_restartable
      [] guard = "true"     -> TRUE                     \* atom_univ

\* atom(guard, action): Fn(I, &D) -> O
AtomAction(action, i, ch) ==
    CASE action = "i+1"     -> i + 1                    \* test_concat
      [] action = "i+3"     -> i + 3                    \* test_atom_restartable m3
      [] action = "i+digit" -> i + to_digit(ch)         \* test_union
      [] action = "i"       -> i                        \* atom_iden
      [] action = "|(), d| is_ascii_digit(d)" -> is_ascii_digit(ch)   \* map

\* aggregate(m, agg_fun): Fn(Z, Y) -> Z
AggFun(agg_fun, z, y) ==
    CASE agg_fun = "x1+x2" -> z + y                     \* test_aggregate

\* guards of update transitions: Fn(&D) -> bool
TransGuard(guard, d) ==
    CASE guard = "true"   -> TRUE
      [] guard = "false"  -> FALSE
      [] guard = "is_a"   -> d[1] = "a"
      [] guard = "is_b"   -> d[1] = "b"

\* actions of one-source transitions: Fn(&D, &Q) -> Q
\* (for an epsilon transition the item is the unit value and is not read)
Trans1Action(action, d, q) ==
    CASE action = "q"     -> q              \* add_iden; |&q| q
      [] action = "0"     -> 0              \* |_| 0
      [] action = "d.1"   -> d[2]           \* |&d, _q| d.1
      [] action = "q+d.1" -> q + d[2]       \* |&d, &q| q + d.1

\* actions of two-source transitions: Fn(&D, &Q, &Q) -> Q
Trans2Action(action, d, q1, q2) ==
    CASE action = "0"     -> 0              \* |_, _| 0
      [] action = "q1-q2" -> q1 - q2        \* |_d, &q4, &q5| q4 - q5

(***************************************************************************)
(* A closure handed to split / apply1 / apply2 is the function it names    *)
(* together with the values it captured; Call1 and Call2 call it.          *)
(***************************************************************************)
\* test_apply4: vec_4
Call4(op, x, y, z, t) ==
    CASE op.fn = "vec_4" -> <<x, y, z, t>>

\* test_apply3: vec_3
Call3(op, x, y, z) ==
    CASE op.fn = "vec_3" -> <<x, y, z>>

Call2(op, x, y) ==
    CASE op.fn = "agg_fun"       -> AggFun(op.agg_fun, x, y)
      [] op.fn = "Trans2Action"  -> Trans2Action(op.action, op.item, x, y)
      [] op.fn = "ops::Add::add" -> x + y          \* test_apply2

Call1(op, x) ==
    CASE op.fn = "EpsilonAction" -> EpsilonAction(op.action, x)
      [] op.fn = "AtomAction"    -> AtomAction(op.action, x, op.item)
      [] op.fn = "Trans1Action"  -> Trans1Action(op.action, op.item, x)
      [] op.fn = "|(x, z)| (x, z)" -> <<x[1], x[2]>>
      [] op.fn = "|(v1, v2)| op(v1, v2)" -> Call2(op.op, x[1], x[2])
      [] op.fn = "|((x, y), z)| op(x, y, z)" ->
            Call3(op.op, x[1][1], x[1][2], x[2])
      [] op.fn = "|(((x, y), z), t)| op(x, y, z, t)" ->
            Call4(op.op, x[1][1][1], x[1][1][2], x[1][2], x[2])

split(e, f) ==
    LET pair(p) == <<One(p[1]), One(p[2])>>
    IN  CASE e.t = "None" -> <<None, None>>
          [] e.t = "One"  -> pair(Call1(f, e.v))
          [] e.t = "Many" -> <<Many, Many>>

apply1(op, v1) ==
    CASE v1.t = "None" -> None
      [] v1.t = "One"  -> One(Call1(op, v1.v))
      [] v1.t = "Many" -> Many

apply2(op, v1, v2) ==
    apply1([fn |-> "|(v1, v2)| op(v1, v2)", op |-> op], mul(v1, v2))

apply3(op, v1, v2, v3) ==
    apply1([fn |-> "|((x, y), z)| op(x, y, z)", op |-> op],
           mul(mul(v1, v2), v3))

apply4(op, v1, v2, v3, v4) ==
    apply1([fn |-> "|(((x, y), z), t)| op(x, y, z, t)", op |-> op],
           mul(mul(mul(v1, v2), v3), v4))

\* how many times apply1 calls op: once in the arm Ext::One(x) => op(x)
apply1_calls(v1) == IF v1.t = "One" THEN 1 ELSE 0

\* apply2 .. apply4 call op from the closure they hand to apply1
apply2_calls(v1, v2) == apply1_calls(mul(v1, v2))
apply3_calls(v1, v2, v3) == apply1_calls(mul(mul(v1, v2), v3))
apply4_calls(v1, v2, v3, v4) == apply1_calls(mul(mul(mul(v1, v2), v3), v4))

(***************************************************************************)
(* Results of calls.                                                       *)
(***************************************************************************)
Ret(self, o, ok) == [m |-> self, out |-> o, ok |-> ok]

\* debug_assert!(c): checked in debug builds only
DebugAssert(c) == debug => c

\* a bool-returning call that may end in unimplemented!():
\* `a && b` evaluates b only when a returned true
AndAlso(a, b) == IF a = "true" THEN b ELSE a
OrElse(a, b) == IF a = "false" THEN b ELSE a
Bool(b) == IF b THEN "true" ELSE "false"

(***************************************************************************)
(* qre.rs: constructors.  A constructor whose assertion fails, or that is  *)
(* handed the result of a failed construction, yields Panic.               *)
(***************************************************************************)
Panic == [k |-> "panic"]

RECURSIVE init(_, _), update(_, _), reset(_), clone(_)
RECURSIVE is_epsilon(_), is_restartable(_), n_states(_), n_transs(_)

epsilon(action) == [k |-> "Epsilon", action |-> action]

atom(guard, action) ==
    [k |-> "Atom", guard |-> guard, action |-> action, istate |-> None]

union(m1, m2) ==
    IF m1 = Panic \/ m2 = Panic THEN Panic
    ELSE [k |-> "Union", m1 |-> m1, m2 |-> m2]

parcomp(m1, m2) ==
    IF m1 = Panic \/ m2 = Panic THEN Panic
    ELSE [k |-> "ParComp", m1 |-> m1, m2 |-> m2]

concat(m1, m2) ==
    IF m1 = Panic \/ m2 = Panic THEN Panic
    ELSE IF OrElse(is_restartable(m2), Bool(is_epsilon(m1))) = "true"
         THEN [k |-> "Concat", m1 |-> m1, m2 |-> m2]
         ELSE Panic

\* iterate without its `assert!(m.is_restartable());`
iterate_no_assert(m0) ==
    IF m0 = Panic THEN Panic
    ELSE [k |-> "Iterate", m |-> m0, istate |-> None, loopy |-> "None"]

iterate(m0) ==
    IF m0 = Panic THEN Panic
    ELSE IF is_restartable(m0) = "true"
         THEN [k |-> "Iterate", m |-> m0, istate |-> None, loopy |-> "None"]
         ELSE Panic

aggregate(m0, agg_fun) ==
    IF m0 = Panic THEN Panic
    ELSE [k |-> "Aggregate", m |-> m0, agg_fun |-> agg_fun, agg |-> None]

top(m0) ==
    IF m0 = Panic THEN Panic
    ELSE IF is_restartable(m0) = "unimplemented" THEN Panic
    ELSE [k |-> "TopWrapper", m |-> m0,
          epsilon |-> is_epsilon(m0),
          restartable |-> is_restartable(m0),
          n_states |-> n_states(m0),
          n_transs |-> n_transs(m0)]

\* derived constructs
epsilon_iden == epsilon("i")
\* epsilon(move |_i| out.clone())
epsilon_const(o) == epsilon(IF o = 8 THEN "|_i| 8" ELSE "|_i| 9")

\* atom_univ whose guard accepts digits only
atom_univ_digits(action) == atom("is_digit", action)

atom_univ(action) == atom("true", action)
atom_iden == atom_univ("i")
stream_iden == iterate(atom_iden)
repeat(o) == concat(stream_iden, epsilon_const(o))
\* atom_univ(move |(), d| map_fun(d)), for map(|d| d.is_ascii_digit())
map(map_fun) ==
    concat(stream_iden,
           atom_univ(CASE map_fun = "is_ascii_digit" ->
                              "|(), d| is_ascii_digit(d)"))

(***************************************************************************)
(* qre.rs: Epsilon                                                         *)
(***************************************************************************)
Epsilon_init(self, i) ==
    Ret(self, apply1([fn |-> "EpsilonAction", action |-> self.action], i), TRUE)

Epsilon_update(self, item) == Ret(self, None, TRUE)

Epsilon_reset(self) == self

(***************************************************************************)
(* qre.rs: Atom                                                            *)
(***************************************************************************)
\* Atom::init with `self.istate = i` instead of `self.istate += i`
Atom_init_overwrite(self, i) == Ret([self EXCEPT !.istate = i], None, TRUE)

Atom_init(self, i) ==
    Ret([self EXCEPT !.istate = add_assign(@, i)], None, TRUE)

\* Atom::update taking the buffer only when the guard holds
Atom_update_keep(self, item) ==
    IF AtomGuard(self.guard, item)
    THEN Ret([self EXCEPT !.istate = None],
             apply1([fn |-> "AtomAction", action |-> self.action,
                     item |-> item], self.istate),
             TRUE)
    ELSE Ret(self, None, TRUE)

Atom_update(self, item) ==
    LET istate == self.istate
        self_  == [self EXCEPT !.istate = None]
    IN  IF AtomGuard(self.guard, item)
        THEN Ret(self_,
                 apply1([fn |-> "AtomAction", action |-> self.action,
                         item |-> item], istate),
                 TRUE)
        ELSE Ret(self_, None, TRUE)

Atom_reset(self) == [self EXCEPT !.istate = None]

(***************************************************************************)
(* qre.rs: Union                                                           *)
(***************************************************************************)
Union_init(self, i) ==
    LET ret(r1, r2) ==
            Ret([self EXCEPT !.m1 = r1.m, !.m2 = r2.m],
                add(r1.out, r2.out), r1.ok /\ r2.ok)
    IN  ret(init(self.m1, i), init(self.m2, i))

Union_update(self, item) ==
    LET ret(r1, r2) ==
            Ret([self EXCEPT !.m1 = r1.m, !.m2 = r2.m],
                add(r1.out, r2.out), r1.ok /\ r2.ok)
    IN  ret(update(self.m1, item), update(self.m2, item))

Union_reset(self) ==
    [self EXCEPT !.m1 = reset(self.m1), !.m2 = reset(self.m2)]

(***************************************************************************)
(* qre.rs: ParComp                                                         *)
(***************************************************************************)
ParComp_init(self, i) ==
    LET ret(r1, r2) ==
            Ret([self EXCEPT !.m1 = r1.m, !.m2 = r2.m],
                mul(r1.out, r2.out), r1.ok /\ r2.ok)
    IN  ret(init(self.m1, i), init(self.m2, i))

\* ParComp::update returning the output of m1 alone, paired with itself
ParComp_update_m1(self, item) ==
    LET ret(r1, r2) ==
            Ret([self EXCEPT !.m1 = r1.m, !.m2 = r2.m],
                mul(r1.out, r1.out), r1.ok /\ r2.ok)
    IN  ret(update(self.m1, item), update(self.m2, item))

ParComp_update(self, item) ==
    LET ret(r1, r2) ==
            Ret([self EXCEPT !.m1 = r1.m, !.m2 = r2.m],
                mul(r1.out, r2.out), r1.ok /\ r2.ok)
    IN  ret(update(self.m1, item), update(self.m2, item))

ParComp_reset(self) ==
    [self EXCEPT !.m1 = reset(self.m1), !.m2 = reset(self.m2)]

(***************************************************************************)
(* qre.rs: Concat                                                          *)
(***************************************************************************)
Concat_init(self, i) ==
    LET ret(r1, r2) ==
            Ret([self EXCEPT !.m1 = r1.m, !.m2 = r2.m], r2.out, r1.ok /\ r2.ok)
        then(r1) == ret(r1, init(self.m2, r1.out))
    IN  then(init(self.m1, i))

\* Concat::update returning z2 only when z1 is None, instead of z1 + z2
Concat_update_first(self, item) ==
    LET ret(y, z1, z2) ==
            Ret([self EXCEPT !.m1 = y.m, !.m2 = z2.m],
                IF is_none(z1.out) THEN z2.out ELSE z1.out,
                y.ok /\ z1.ok /\ z2.ok)
        then(y, z1) == ret(y, z1, init(z1.m, y.out))
    IN  then(update(self.m1, item), update(self.m2, item))

\* Concat::update without `self.m2.init(y)`
Concat_update_no_init(self, item) ==
    LET ret(y, z1) ==
            Ret([self EXCEPT !.m1 = y.m, !.m2 = z1.m], z1.out, y.ok /\ z1.ok)
    IN  ret(update(self.m1, item), update(self.m2, item))

\* Concat::update handing m1's output to m2 before m2 processes the item
Concat_update_init_first(self, item) ==
    LET ret(y, z1, z2) ==
            Ret([self EXCEPT !.m1 = y.m, !.m2 = z2.m],
                add(z1.out, z2.out), y.ok /\ z1.ok /\ z2.ok)
        then(y, z1) == ret(y, z1, update(z1.m, item))
        first(y) == then(y, init(self.m2, y.out))
    IN  first(update(self.m1, item))

Concat_update(self, item) ==
    LET ret(y, z1, z2) ==
            Ret([self EXCEPT !.m1 = y.m, !.m2 = z2.m],
                add(z1.out, z2.out), y.ok /\ z1.ok /\ z2.ok)
        then(y, z1) == ret(y, z1, init(z1.m, y.out))
    IN  then(update(self.m1, item), update(self.m2, item))

Concat_reset(self) ==
    [self EXCEPT !.m1 = reset(self.m1), !.m2 = reset(self.m2)]

(***************************************************************************)
(* qre.rs: Iterate.  loopy is the Option<bool> of the struct.              *)
(***************************************************************************)
\* the `match self.loopy` of Iterate::init, reached when i is not None
Iterate_init_match(self, i) ==
    LET \* self.istate = Ext::Many; self.m.init(Ext::Many); Ext::Many
        many(r, asserted) ==
            Ret([self EXCEPT !.istate = Many, !.m = r.m], Many,
                r.ok /\ (asserted => r.out = Many))
        \* self.istate += i.to_unit(); self.m.init(i.clone()); i
        one(r, asserted) ==
            Ret([self EXCEPT !.istate = add_assign(@, to_unit(i)), !.m = r.m],
                i, r.ok /\ (asserted => r.out = None))
        \* self.init(out)
        rerun(ok, r2) == Ret(r2.m, r2.out, ok /\ r2.ok)
        \* let out = self.m.init(i.clone()); if out.is_none() ... else ...
        learn(ok0, r) ==
            IF is_none(r.out)
            THEN Ret([self EXCEPT !.istate = to_unit(i), !.m = r.m,
                                  !.loopy = "Some(false)"],
                     i, ok0 /\ r.ok)
            ELSE rerun(ok0 /\ r.ok,
                       init([self EXCEPT !.istate = to_unit(i), !.m = r.m,
                                         !.loopy = "Some(true)"],
                            r.out))
    IN  CASE self.loopy = "Some(true)" ->
                IF debug THEN many(init(self.m, Many), TRUE)
                ELSE IF ~is_many(self.istate)
                THEN many(init(self.m, Many), FALSE)
                ELSE Ret(self, Many, TRUE)
          [] self.loopy = "Some(false)" ->
                IF debug THEN one(init(self.m, i), TRUE)
                ELSE IF ~is_many(self.istate)
                THEN one(init(self.m, i), FALSE)
                ELSE Ret(self, i, TRUE)
          [] self.loopy = "None" ->
                learn(DebugAssert(is_none(self.istate)), init(self.m, i))

\* Iterate::init without its `if i.is_none() { return Ext::None; }`
Iterate_init_no_return(self, i) == Iterate_init_match(self, i)

\* Iterate::init returning its input from every arm, `Some(true)` included
Iterate_init_return_input(self, i) ==
    LET input(r) == Ret(r.m, i, r.ok)
    IN  IF is_none(i) THEN Ret(self, None, TRUE)
        ELSE input(Iterate_init_match(self, i))

\* Iterate::init handing m its input a second time:
\* `self.m.init(i.clone()); self.m.init(i.clone())`
Iterate_init_twice(self, i) ==
    LET again(r, r2) == Ret([r.m EXCEPT !.m = r2.m], r.out, r.ok /\ r2.ok)
        then(r) == again(r, init(r.m.m, i))
    IN  IF is_none(i) THEN Ret(self, None, TRUE)
        ELSE then(Iterate_init_match(self, i))

Iterate_init(self, i) ==
    IF is_none(i) THEN Ret(self, None, TRUE)
    ELSE Iterate_init_match(self, i)

\* Iterate::update without its `self.istate = Ext::None;`
Iterate_update_keep_istate(self, item) ==
    LET ret(sub_out, r) == Ret(r.m, r.out, sub_out.ok /\ r.ok)
        then(sub_out) ==
            ret(sub_out, init([self EXCEPT !.m = sub_out.m], sub_out.out))
    IN  then(update(self.m, item))

Iterate_update(self, item) ==
    LET ret(sub_out, r) == Ret(r.m, r.out, sub_out.ok /\ r.ok)
        then(sub_out) ==
            ret(sub_out, init([self EXCEPT !.istate = None, !.m = sub_out.m],
                              sub_out.out))
    IN  then(update(self.m, item))

\* Iterate::reset without its `self.m.reset();`
Iterate_reset_keep_m(self) == [self EXCEPT !.istate = None]

Iterate_reset(self) ==
    [self EXCEPT !.m = reset(self.m), !.istate = None]

(***************************************************************************)
(* qre.rs: Aggregate                                                       *)
(***************************************************************************)
\* update_agg returning the new aggregate without storing it in self.agg
update_agg_no_store(self, y) ==
    IF is_none(y) THEN Ret(self, None, TRUE)
    ELSE Ret(self,
             apply2([fn |-> "agg_fun", agg_fun |-> self.agg_fun], self.agg, y),
             TRUE)

update_agg(self, y) ==
    LET ret(agg) == Ret([self EXCEPT !.agg = agg], agg, TRUE)
    IN  IF is_none(y) THEN Ret(self, None, TRUE)
        ELSE ret(apply2([fn |-> "agg_fun", agg_fun |-> self.agg_fun],
                        self.agg, y))

\* Aggregate::init with `self.agg = z` instead of `self.agg += z`
Aggregate_init_overwrite(self, i) ==
    LET ret(y, r) == Ret(r.m, r.out, y.ok /\ r.ok)
        agg(z, y) ==
            ret(y, update_agg([self EXCEPT !.m = y.m, !.agg = z], y.out))
        then(xz) == agg(xz[2], init(self.m, xz[1]))
    IN  then(split(i, [fn |-> "|(x, z)| (x, z)"]))

Aggregate_init(self, i) ==
    LET ret(y, r) == Ret(r.m, r.out, y.ok /\ r.ok)
        agg(z, y) ==
            ret(y, update_agg([self EXCEPT !.m = y.m,
                                           !.agg = add_assign(@, z)], y.out))
        then(xz) == agg(xz[2], init(self.m, xz[1]))
    IN  then(split(i, [fn |-> "|(x, z)| (x, z)"]))

Aggregate_update(self, item) ==
    LET ret(y, r) == Ret(r.m, r.out, y.ok /\ r.ok)
        then(y) == ret(y, update_agg([self EXCEPT !.m = y.m], y.out))
    IN  then(update(self.m, item))

Aggregate_reset(self) ==
    [self EXCEPT !.m = reset(self.m), !.agg = None]

(***************************************************************************)
(* qre.rs: TopWrapper                                                      *)
(***************************************************************************)
TopWrapper_init(self, i) ==
    LET ret(r) == Ret([self EXCEPT !.m = r.m], r.out, r.ok)
    IN  ret(init(self.m, i))

TopWrapper_update(self, item) ==
    LET ret(r) == Ret([self EXCEPT !.m = r.m], r.out, r.ok)
    IN  ret(update(self.m, item))

\* reset that stops at the wrapper
TopWrapper_reset_outer(self) == self

TopWrapper_reset(self) == [self EXCEPT !.m = reset(self.m)]

(***************************************************************************)
(* state_machine.rs: transitions.  StateId and TransId count from 0 as in  *)
(* the source; StateList and TransList are sequences read through At.      *)
(* Stream items of the automaton are pairs (char, isize) as in its tests.  *)
(***************************************************************************)
At(list, id) == list[id + 1]
in_range(list, id) == id < Len(list)

ISTATE_ID == 0
FSTATE_ID == 1

Trans1(source, target, guard, action) ==
    [k |-> "Trans1", source |-> source, target |-> target,
     guard |-> guard, action |-> action]

Trans2(source1, source2, target, guard, action) ==
    [k |-> "Trans2", source1 |-> source1, source2 |-> source2,
     target |-> target, guard |-> guard, action |-> action]

source_ids(tr) ==
    IF tr.k = "Trans1" THEN <<tr.source>> ELSE <<tr.source1, tr.source2>>

target_id(tr) == tr.target

all_ids(tr) == Append(source_ids(tr), target_id(tr))

eval_precond(tr, states) ==
    \A n \in DOMAIN source_ids(tr) : in_range(states, source_ids(tr)[n])

\* epsilon_guard panics when called; is_active is TRUE, FALSE or "panic"
is_active(tr, item) ==
    IF tr.guard = "epsilon_guard" THEN "panic"
    ELSE Bool(TransGuard(tr.guard, item))

eval(tr, item, states) ==
    IF tr.k = "Trans1"
    THEN apply1([fn |-> "Trans1Action", action |-> tr.action, item |-> item],
                as_ref(At(states, tr.source)))
    ELSE apply2([fn |-> "Trans2Action", action |-> tr.action, item |-> item],
                as_ref(At(states, tr.source1)),
                as_ref(At(states, tr.source2)))

(***************************************************************************)
(* state_machine.rs: DataTransducer, construction                          *)
(***************************************************************************)
RECURSIVE SumLen(_)
SumLen(lists) ==
    IF lists = <<>> THEN 0 ELSE Len(Head(lists)) + SumLen(Tail(lists))

invariant(self) ==
    /\ Len(self.states) >= 2
    /\ Len(self.states) = Len(self.eps_out)
    /\ SumLen(self.eps_out)
         = SumLen([n \in DOMAIN self.epsilons |-> source_ids(self.epsilons[n])])
    /\ \A sn \in DOMAIN self.eps_out :
         \A en \in DOMAIN self.eps_out[sn] :
            LET id == self.eps_out[sn][en]
            IN  /\ in_range(self.epsilons, id)
                /\ \E k \in DOMAIN source_ids(At(self.epsilons, id)) :
                      source_ids(At(self.epsilons, id))[k] = sn - 1

trans_precond(self, tr) ==
    \A n \in DOMAIN all_ids(tr) : in_range(self.states, all_ids(tr)[n])

DataTransducer_new ==
    [k |-> "DataTransducer",
     states   |-> <<None, None>>,
     updates  |-> <<>>,
     epsilons |-> <<>>,
     eps_out  |-> << <<>>, <<>> >>]

\* add_state without `self.eps_out.push(Vec::new())`
add_state_no_eps_out(self) ==
    IF self = Panic \/ ~DebugAssert(Len(self.states) >= 2) THEN Panic
    ELSE LET new == [self EXCEPT !.states = Append(@, None)]
         IN  IF DebugAssert(invariant(new)) THEN new ELSE Panic

add_state(self) ==
    IF self = Panic \/ ~DebugAssert(Len(self.states) >= 2) THEN Panic
    ELSE LET new == [self EXCEPT !.states = Append(@, None),
                                 !.eps_out = Append(@, <<>>)]
         IN  IF DebugAssert(invariant(new)) THEN new ELSE Panic

RECURSIVE set_nstates(_, _)
\* set_nstates without `assert!(self.states.len() <= n)`
set_nstates_no_assert(self, n) ==
    IF self = Panic THEN Panic
    ELSE IF Len(self.states) < n THEN set_nstates(add_state(self), n)
    ELSE self

set_nstates(self, n) ==
    IF self = Panic THEN Panic
    ELSE IF ~(Len(self.states) <= n) THEN Panic
    ELSE IF Len(self.states) < n THEN set_nstates(add_state(self), n)
    ELSE self

add_transition_core(self, tr) ==
    IF self = Panic \/ ~trans_precond(self, tr) THEN Panic
    ELSE LET new == [self EXCEPT !.updates = Append(@, tr)]
         IN  IF DebugAssert(invariant(new)) THEN new ELSE Panic

RECURSIVE PushEach(_, _, _)
\* for source_id in tr.source_ids() { self.eps_out[source_id].push(new_tr_id) }
PushEach(eps_out, ids, new_tr_id) ==
    IF ids = <<>> THEN eps_out
    ELSE PushEach([eps_out EXCEPT ![Head(ids) + 1] = Append(@, new_tr_id)],
                  Tail(ids), new_tr_id)

\* indexing eps_out by a source that is out of range panics
add_epsilon_core(self, tr) ==
    IF self = Panic \/ ~DebugAssert(trans_precond(self, tr)) THEN Panic
    ELSE IF ~eval_precond(tr, self.eps_out) THEN Panic
    ELSE LET new_tr_id == Len(self.epsilons)
             new == [self EXCEPT
                       !.eps_out = PushEach(@, source_ids(tr), new_tr_id),
                       !.epsilons = Append(@, tr)]
         IN  IF DebugAssert(invariant(new)) THEN new ELSE Panic

add_transition1(self, source, target, guard, action) ==
    add_transition_core(self, Trans1(source, target, guard, action))

add_transition2(self, source1, source2, target, guard, action) ==
    add_transition_core(self, Trans2(source1, source2, target, guard, action))

add_iden(self, source, target, guard) ==
    add_transition1(self, source, target, guard, "q")

add_epsilon1(self, source, target, action) ==
    add_epsilon_core(self, Trans1(source, target, "epsilon_guard", action))

add_epsilon2(self, source1, source2, target, action) ==
    add_epsilon_core(self,
        Trans2(source1, source2, target, "epsilon_guard", action))

(***************************************************************************)
(* state_machine.rs: DataTransducer, the streaming algorithm               *)
(***************************************************************************)
add_to_istate(self, i) ==
    [self EXCEPT !.states[ISTATE_ID + 1] = add_assign(@, i)]

get_fstate(self) == At(self.states, FSTATE_ID)

eval_epsilon(self, tr_id) == eval(At(self.epsilons, tr_id), <<>>, self.states)

RECURSIVE eval_epsilons_loop(_, _, _)
\* eval_epsilons with `trans_vals[tr_id] = new.to_unit()` left out
eval_epsilons_loop_no_record(self, trans_wklist, trans_vals) ==
    IF trans_wklist = <<>> THEN [m |-> self, ok |-> TRUE, joined |-> <<>>]
    ELSE LET tr_id  == trans_wklist[Len(trans_wklist)]
             rest   == SubSeq(trans_wklist, 1, Len(trans_wklist) - 1)
             cur    == At(trans_vals, tr_id)
             tgt_id == target_id(At(self.epsilons, tr_id))
             log(r) ==
                 [r EXCEPT !.joined =
                     <<[tr |-> tr_id, cur |-> cur, rec |-> cur]>> \o @]
             increase(new) ==
                 IF is_none(new) \/ (is_one(new) /\ is_one(cur))
                 THEN eval_epsilons_loop(self, rest, trans_vals)
                 ELSE log(eval_epsilons_loop(
                        [self EXCEPT !.states[tgt_id + 1] = add_assign(@, new)],
                        rest \o At(self.eps_out, tgt_id),
                        trans_vals))
         IN  IF is_many(cur)
                THEN eval_epsilons_loop(self, rest, trans_vals)
             ELSE IF ~in_range(self.states, tgt_id)
                THEN [m |-> self, ok |-> FALSE, joined |-> <<>>]
             ELSE IF is_many(At(self.states, tgt_id))
                THEN eval_epsilons_loop(self, rest, trans_vals)
             ELSE increase(eval_epsilon(self, tr_id))

\* eval_epsilons skipping a transition whenever it has a value recorded:
\* `new.is_none() || cur.is_one()`
eval_epsilons_loop_once(self, trans_wklist, trans_vals) ==
    IF trans_wklist = <<>> THEN [m |-> self, ok |-> TRUE, joined |-> <<>>]
    ELSE LET tr_id  == trans_wklist[Len(trans_wklist)]
             rest   == SubSeq(trans_wklist, 1, Len(trans_wklist) - 1)
             cur    == At(trans_vals, tr_id)
             tgt_id == target_id(At(self.epsilons, tr_id))
             log(vals, r) ==
                 [r EXCEPT !.joined =
                     <<[tr |-> tr_id, cur |-> cur, rec |-> At(vals, tr_id)]>>
                         \o @]
             raise(new, vals) ==
                 log(vals, eval_epsilons_loop(
                        [self EXCEPT !.states[tgt_id + 1] = add_assign(@, new)],
                        rest \o At(self.eps_out, tgt_id),
                        vals))
             increase(new) ==
                 IF is_none(new) \/ is_one(cur)
                 THEN eval_epsilons_loop(self, rest, trans_vals)
                 ELSE raise(new,
                            [trans_vals EXCEPT ![tr_id + 1] = to_unit(new)])
         IN  IF is_many(cur)
                THEN eval_epsilons_loop(self, rest, trans_vals)
             ELSE IF ~in_range(self.states, tgt_id)
                THEN [m |-> self, ok |-> FALSE, joined |-> <<>>]
             ELSE IF is_many(At(self.states, tgt_id))
                THEN eval_epsilons_loop(self, rest, trans_vals)
             ELSE increase(eval_epsilon(self, tr_id))

\* one iteration of `while let Some(tr_id) = trans_wklist.pop()`;
\* indexing states by a target that is out of range panics.  The result
\* carries, besides the automaton, the steps that were not skipped: the
\* transition, its value in trans_vals before and the one recorded.
eval_epsilons_loop(self, trans_wklist, trans_vals) ==
    IF trans_wklist = <<>> THEN [m |-> self, ok |-> TRUE, joined |-> <<>>]
    ELSE LET tr_id  == trans_wklist[Len(trans_wklist)]
             rest   == SubSeq(trans_wklist, 1, Len(trans_wklist) - 1)
             cur    == At(trans_vals, tr_id)
             tgt_id == target_id(At(self.epsilons, tr_id))
             log(vals, r) ==
                 [r EXCEPT !.joined =
                     <<[tr |-> tr_id, cur |-> cur, rec |-> At(vals, tr_id)]>>
                         \o @]
             raise(new, vals) ==
                 log(vals, eval_epsilons_loop(
                        [self EXCEPT !.states[tgt_id + 1] = add_assign(@, new)],
                        rest \o At(self.eps_out, tgt_id),
                        vals))
             increase(new) ==
                 IF is_none(new) \/ (is_one(new) /\ is_one(cur))
                 THEN eval_epsilons_loop(self, rest, trans_vals)
                 ELSE raise(new,
                            [trans_vals EXCEPT ![tr_id + 1] = to_unit(new)])
         IN  IF is_many(cur)
                THEN eval_epsilons_loop(self, rest, trans_vals)
             ELSE IF ~in_range(self.states, tgt_id)
                THEN [m |-> self, ok |-> FALSE, joined |-> <<>>]
             ELSE IF is_many(At(self.states, tgt_id))
                THEN eval_epsilons_loop(self, rest, trans_vals)
             ELSE increase(eval_epsilon(self, tr_id))

eval_epsilons(self) ==
    LET n_epsilons == Len(self.epsilons)
    IN  eval_epsilons_loop(self,
                           [n \in 1..n_epsilons |-> n - 1],
                           [n \in 1..n_epsilons |-> None])

RECURSIVE eval_updates_loop(_, _, _, _)
\* for tr in self.updates.iter() { if tr.is_active(item) { ... } }
eval_updates_loop(self, item, n, new_states) ==
    IF n > Len(self.updates) THEN new_states
    ELSE LET tr == self.updates[n]
         IN  IF is_active(tr, item) = "true"
             THEN eval_updates_loop(self, item, n + 1,
                    [new_states EXCEPT ![target_id(tr) + 1] =
                        add_assign(@, eval(tr, item, self.states))])
             ELSE eval_updates_loop(self, item, n + 1, new_states)

\* eval_updates starting from the old slot values:
\* `let mut new_states = self.states.clone()`
eval_updates_carry(self, item) ==
    [self EXCEPT !.states = eval_updates_loop(self, item, 1, self.states)]

\* eval_updates keeping the initial slot:
\* `new_states[ISTATE_ID] = self.states[ISTATE_ID].clone()`
eval_updates_keep_istate(self, item) ==
    [self EXCEPT !.states =
        eval_updates_loop(self, item, 1,
            [n \in DOMAIN self.states |->
                IF n = ISTATE_ID + 1 THEN self.states[n] ELSE None])]

eval_updates(self, item) ==
    [self EXCEPT !.states =
        eval_updates_loop(self, item, 1, [n \in DOMAIN self.states |-> None])]

DataTransducer_init(self, i) ==
    LET ret(r) == Ret(r.m, get_fstate(r.m), r.ok /\ DebugAssert(invariant(r.m)))
    IN  ret(eval_epsilons(add_to_istate(self, i)))

\* DataTransducer::update without the call of eval_epsilons
DataTransducer_update_no_closure(self, item) ==
    LET ret(r) == Ret(r, get_fstate(r), DebugAssert(invariant(r)))
    IN  ret(eval_updates(self, item))

DataTransducer_update(self, item) ==
    LET ret(r) == Ret(r.m, get_fstate(r.m), r.ok /\ DebugAssert(invariant(r.m)))
    IN  ret(eval_epsilons(eval_updates(self, item)))

\* DataTransducer::reset with `self.states.clear()` instead of the loop
DataTransducer_reset_clear(self) == [self EXCEPT !.states = <<>>]

DataTransducer_reset(self) ==
    [self EXCEPT !.states = [n \in DOMAIN self.states |-> None]]

(***************************************************************************)
(* The Transducer trait: dispatch on the implementing type                 *)
(***************************************************************************)
init(self, i) ==
    CASE self.k = "Epsilon"        -> Epsilon_init(self, i)
      [] self.k = "Atom"           -> Atom_init(self, i)
      [] self.k = "Union"          -> Union_init(self, i)
      [] self.k = "ParComp"        -> ParComp_init(self, i)
      [] self.k = "Concat"         -> Concat_init(self, i)
      [] self.k = "Iterate"        -> Iterate_init(self, i)
      [] self.k = "Aggregate"      -> Aggregate_init(self, i)
      [] self.k = "TopWrapper"     -> TopWrapper_init(self, i)
      [] self.k = "DataTransducer" -> DataTransducer_init(self, i)

update(self, item) ==
    CASE self.k = "Epsilon"        -> Epsilon_update(self, item)
      [] self.k = "Atom"           -> Atom_update(self, item)
      [] self.k = "Union"          -> Union_update(self, item)
      [] self.k = "ParComp"        -> ParComp_update(self, item)
      [] self.k = "Concat"         -> Concat_update(self, item)
      [] self.k = "Iterate"        -> Iterate_update(self, item)
      [] self.k = "Aggregate"      -> Aggregate_update(self, item)
      [] self.k = "TopWrapper"     -> TopWrapper_update(self, item)
      [] self.k = "DataTransducer" -> DataTransducer_update(self, item)

reset(self) ==
    CASE self.k = "Epsilon"        -> Epsilon_reset(self)
      [] self.k = "Atom"           -> Atom_reset(self)
      [] self.k = "Union"          -> Union_reset(self)
      [] self.k = "ParComp"        -> ParComp_reset(self)
      [] self.k = "Concat"         -> Concat_reset(self)
      [] self.k = "Iterate"        -> Iterate_reset(self)
      [] self.k = "Aggregate"      -> Aggregate_reset(self)
      [] self.k = "TopWrapper"     -> TopWrapper_reset(self)
      [] self.k = "DataTransducer" -> DataTransducer_reset(self)

(***************************************************************************)
(* Static information of each implementation.  is_restartable returns      *)
(* "true" or "false", or ends in "unimplemented" (unimplemented!()) or     *)
(* "panic" (a failed debug assertion).                                     *)
(***************************************************************************)
Epsilon_is_epsilon(self) == TRUE
Epsilon_is_restartable(self) == "true"
Epsilon_n_states(self) == 0
Epsilon_n_transs(self) == 1

Atom_is_epsilon(self) == FALSE
Atom_is_restartable(self) == "true"
Atom_n_states(self) == 1
Atom_n_transs(self) == 1

Union_is_epsilon(self) == is_epsilon(self.m1) /\ is_epsilon(self.m2)
Union_is_restartable(self) ==
    AndAlso(is_restartable(self.m1), is_restartable(self.m2))
Union_n_states(self) == n_states(self.m1) + n_states(self.m2)
Union_n_transs(self) == n_transs(self.m1) + n_transs(self.m2)

ParComp_is_epsilon(self) == is_epsilon(self.m1) /\ is_epsilon(self.m2)
\* ParComp::is_restartable answering like Union's instead of unimplemented!()
ParComp_is_restartable_and(self) ==
    AndAlso(is_restartable(self.m1), is_restartable(self.m2))

ParComp_is_restartable(self) == "unimplemented"
ParComp_n_states(self) == n_states(self.m1) + n_states(self.m2)
ParComp_n_transs(self) == n_transs(self.m1) + n_transs(self.m2)

Concat_is_epsilon(self) == is_epsilon(self.m1) /\ is_epsilon(self.m2)
Concat_is_restartable(self) ==
    AndAlso(is_restartable(self.m1), is_restartable(self.m2))
Concat_n_states(self) == n_states(self.m1) + n_states(self.m2)
Concat_n_transs(self) == n_transs(self.m1) + n_transs(self.m2)

Iterate_is_epsilon(self) == is_epsilon(self.m)
Iterate_is_restartable(self) ==
    IF ~debug THEN "true"
    ELSE CASE is_restartable(self.m) = "true"          -> "true"
           [] is_restartable(self.m) = "false"         -> "panic"
           [] OTHER                                    -> is_restartable(self.m)
Iterate_n_states(self) == n_states(self.m) + 1
Iterate_n_transs(self) == n_transs(self.m)

Aggregate_is_epsilon(self) == is_epsilon(self.m)
Aggregate_is_restartable(self) == "false"
Aggregate_n_states(self) == n_states(self.m) + 1
\* Aggregate::n_transs without the transition of the fold
Aggregate_n_transs_inner(self) == n_transs(self.m)

Aggregate_n_transs(self) == n_transs(self.m) + 1

TopWrapper_is_epsilon(self) == self.epsilon
TopWrapper_is_restartable(self) == self.restartable
TopWrapper_n_states(self) == self.n_states
TopWrapper_n_transs(self) == self.n_transs

DataTransducer_is_epsilon(self) == self.updates = <<>>
DataTransducer_is_restartable(self) == "unimplemented"
DataTransducer_n_states(self) == Len(self.states)
DataTransducer_n_transs(self) == Len(self.updates) + Len(self.epsilons)

is_epsilon(self) ==
    CASE self.k = "Epsilon"        -> Epsilon_is_epsilon(self)
      [] self.k = "Atom"           -> Atom_is_epsilon(self)
      [] self.k = "Union"          -> Union_is_epsilon(self)
      [] self.k = "ParComp"        -> ParComp_is_epsilon(self)
      [] self.k = "Concat"         -> Concat_is_epsilon(self)
      [] self.k = "Iterate"        -> Iterate_is_epsilon(self)
      [] self.k = "Aggregate"      -> Aggregate_is_epsilon(self)
      [] self.k = "TopWrapper"     -> TopWrapper_is_epsilon(self)
      [] self.k = "DataTransducer" -> DataTransducer_is_epsilon(self)

is_restartable(self) ==
    CASE self.k = "Epsilon"        -> Epsilon_is_restartable(self)
      [] self.k = "Atom"           -> Atom_is_restartable(self)
      [] self.k = "Union"          -> Union_is_restartable(self)
      [] self.k = "ParComp"        -> ParComp_is_restartable(self)
      [] self.k = "Concat"         -> Concat_is_restartable(self)
      [] self.k = "Iterate"        -> Iterate_is_restartable(self)
      [] self.k = "Aggregate"      -> Aggregate_is_restartable(self)
      [] self.k = "TopWrapper"     -> TopWrapper_is_restartable(self)
      [] self.k = "DataTransducer" -> DataTransducer_is_restartable(self)

n_states(self) ==
    CASE self.k = "Epsilon"        -> Epsilon_n_states(self)
      [] self.k = "Atom"           -> Atom_n_states(self)
      [] self.k = "Union"          -> Union_n_states(self)
      [] self.k = "ParComp"        -> ParComp_n_states(self)
      [] self.k = "Concat"         -> Concat_n_states(self)
      [] self.k = "Iterate"        -> Iterate_n_states(self)
      [] self.k = "Aggregate"      -> Aggregate_n_states(self)
      [] self.k = "TopWrapper"     -> TopWrapper_n_states(self)
      [] self.k = "DataTransducer" -> DataTransducer_n_states(self)

n_transs(self) ==
    CASE self.k = "Epsilon"        -> Epsilon_n_transs(self)
      [] self.k = "Atom"           -> Atom_n_transs(self)
      [] self.k = "Union"          -> Union_n_transs(self)
      [] self.k = "ParComp"        -> ParComp_n_transs(self)
      [] self.k = "Concat"         -> Concat_n_transs(self)
      [] self.k = "Iterate"        -> Iterate_n_transs(self)
      [] self.k = "Aggregate"      -> Aggregate_n_transs(self)
      [] self.k = "TopWrapper"     -> TopWrapper_n_transs(self)
      [] self.k = "DataTransducer" -> DataTransducer_n_transs(self)

(***************************************************************************)
(* Clone (DataTransducer does not implement it) and spawn_empty            *)
(***************************************************************************)
Epsilon_clone(self) == epsilon(self.action)

Atom_clone(self) ==
    [atom(self.guard, self.action) EXCEPT !.istate = self.istate]

Union_clone(self) == union(clone(self.m1), clone(self.m2))

ParComp_clone(self) == parcomp(clone(self.m1), clone(self.m2))

Concat_clone(self) == concat(clone(self.m1), clone(self.m2))

Iterate_clone(self) ==
    [k |-> "Iterate", m |-> clone(self.m),
     istate |-> self.istate, loopy |-> self.loopy]

Aggregate_clone(self) ==
    [aggregate(clone(self.m), self.agg_fun) EXCEPT !.agg = self.agg]

TopWrapper_clone(self) == top(clone(self.m))

clone(self) ==
    CASE self.k = "Epsilon"    -> Epsilon_clone(self)
      [] self.k = "Atom"       -> Atom_clone(self)
      [] self.k = "Union"      -> Union_clone(self)
      [] self.k = "ParComp"    -> ParComp_clone(self)
      [] self.k = "Concat"     -> Concat_clone(self)
      [] self.k = "Iterate"    -> Iterate_clone(self)
      [] self.k = "Aggregate"  -> Aggregate_clone(self)
      [] self.k = "TopWrapper" -> TopWrapper_clone(self)

spawn_empty(self) == reset(clone(self))

(***************************************************************************)
(* Bounds of the model and the inputs drawn within them                    *)
(***************************************************************************)
MaxSize == 4      \* combinator nodes of a transducer handed to the harness
MaxStream == 4    \* events of a restart-augmented stream

Chars == {"1", "b"}           \* one digit and one non-digit
RestartVals == {1, 2}         \* the I of Restart(I)

\* restartable leaves, as in test_epsilon_restartable, test_concat and
\* test_atom_restartable
RLeaves ==
    {epsilon("i*2"), atom("is_digit", "i+1"), atom("true", "i+3")}

RECURSIVE RTermsOfSize(_)
\* transducers i32 -> i32 with n nodes built from the leaves by union,
\* concat and iterate (every such construction succeeds)
RTermsOfSize(n) ==
    IF n = 1 THEN RLeaves
    ELSE {iterate(x) : x \in RTermsOfSize(n - 1)}
         \cup UNION {
                UNION { {union(a, b), concat(a, b)} :
                          a \in RTermsOfSize(l), b \in RTermsOfSize(n - 1 - l) }
                : l \in 1..(n - 2) }

\* test_aggregate: concat(epsilon(|x| (x, x)), aggregate(iterate(m1), +))
TestAggregate ==
    concat(epsilon("(x,x)"),
           aggregate(iterate(atom("is_digit", "i+1")), "x1+x2"))

\* test_parcomp_not_restarable: parcomp(m1, concat(m1, m1))
test_parcomp_not_restarable ==
    parcomp(atom("is_digit", "i+digit"),
            concat(atom("is_digit", "i+digit"), atom("is_digit", "i+digit")))

RTerms ==
    (UNION {RTermsOfSize(n) : n \in 1..MaxSize})
        \cup {TestAggregate, test_parcomp_not_restarable}

(***************************************************************************)
(* interface.rs: the restart-augmented stream harness                      *)
(***************************************************************************)
Restart(i) == [k |-> "Restart", i |-> i]
Item(d) == [k |-> "Item", d |-> d]

init_one(self, i) == init(self, One(i))

\* one element of process_rstream_single
process_rstream_single(self, ev) ==
    IF ev.k = "Restart" THEN init_one(self, ev.i) ELSE update(self, ev.d)

RECURSIVE UpdateAll(_, _, _)
\* for transducer in transducers.iter_mut() { out += transducer.update(&item) }
UpdateAll(acc, item, n) ==
    LET next(r) ==
            UpdateAll(Ret([acc.m EXCEPT ![n] = r.m],
                          add_assign(acc.out, r.out), acc.ok /\ r.ok),
                      item, n + 1)
    IN  IF n > Len(acc.m) THEN acc ELSE next(update(acc.m[n], item))

\* one element of process_rstream_multi; ts is the vector of transducers
process_rstream_multi(self, ts, ev) ==
    LET push(r) == Ret(Append(ts, r.m), r.out, r.ok)
    IN  IF ev.k = "Restart" THEN push(init_one(spawn_empty(self), ev.i))
        ELSE UpdateAll(Ret(ts, None, TRUE), ev.d, 1)

Unused == "-"

RInit ==
    /\ debug \in BOOLEAN
    /\ proto \in RTerms
    /\ self1 = spawn_empty(proto)
    /\ transducers = <<>>
    /\ strm = <<>>
    /\ single_out = <<>>
    /\ multi_out = <<>>
    /\ panicked = FALSE
    /\ m = Unused /\ twin = Unused /\ law = Unused /\ call = Unused
    /\ out = Unused /\ tout = Unused /\ ncalls = 0

Feed(ev) ==
    LET record(s1, s2) ==
            /\ self1' = s1.m
            /\ transducers' = s2.m
            /\ single_out' = Append(single_out, s1.out)
            /\ multi_out' = Append(multi_out, s2.out)
            /\ panicked' = ~(s1.ok /\ s2.ok)
    IN  /\ ~panicked
        /\ Len(strm) < MaxStream
        /\ record(process_rstream_single(self1, ev),
                  process_rstream_multi(proto, transducers, ev))
        /\ strm' = Append(strm, ev)
        /\ UNCHANGED <<debug, proto, m, twin, law, call, out, tout, ncalls>>

FeedRestart == \E i \in RestartVals : Feed(Restart(i))

FeedItem == \E d \in Chars : Feed(Item(d))

RNext == FeedRestart \/ FeedItem

RSpec == RInit /\ [][RNext]_vars

\* restartability_holds_for: single_out.eq(multi_out), both having returned
restartability_holds == ~panicked /\ single_out = multi_out


\* built from epsilon, atom, union, concat (and iterate when it is TRUE)
RECURSIVE BuiltFrom(_, _)
BuiltFrom(x, it) ==
    CASE x.k \in {"Epsilon", "Atom"} -> TRUE
      [] x.k \in {"Union", "Concat"} -> BuiltFrom(x.m1, it) /\ BuiltFrom(x.m2, it)
      [] x.k = "Iterate"             -> it /\ BuiltFrom(x.m, it)
      [] OTHER                       -> FALSE

(***************************************************************************)
(* The type parameters of the implementations: I and O of each transducer. *)
(* Values are i32 ("int") or pairs of i32 ("pair"); a construction the     *)
(* Rust type checker rejects has ok = FALSE.                               *)
(***************************************************************************)
Ty(i, o) == [ok |-> TRUE, i |-> i, o |-> o]
IllTyped == [ok |-> FALSE, i |-> "-", o |-> "-"]

RECURSIVE TypeOf(_)
TypeOf(x) ==
    CASE x.k = "Epsilon" ->
            (CASE x.action \in {"i+1", "i*2", "i"} -> Ty("int", "int")
               [] x.action = "(x,x)"               -> Ty("int", "pair")
               [] x.action = "o1+o2"               -> Ty("pair", "int"))
      [] x.k = "Atom" -> Ty("int", "int")
      [] x.k = "Union" ->
            LET t1 == TypeOf(x.m1) t2 == TypeOf(x.m2)
            IN  IF t1.ok /\ t2 = t1 THEN t1 ELSE IllTyped
      [] x.k = "ParComp" ->
            LET t1 == TypeOf(x.m1) t2 == TypeOf(x.m2)
            IN  IF t1.ok /\ t2 = t1 /\ t1.o = "int"
                THEN Ty(t1.i, "pair") ELSE IllTyped
      [] x.k = "Concat" ->
            LET t1 == TypeOf(x.m1) t2 == TypeOf(x.m2)
            IN  IF t1.ok /\ t2.ok /\ t1.o = t2.i
                THEN Ty(t1.i, t2.o) ELSE IllTyped
      [] x.k = "Iterate" ->
            LET t == TypeOf(x.m)
            IN  IF t.ok /\ t.i = t.o THEN t ELSE IllTyped
      [] x.k = "Aggregate" ->
            LET t == TypeOf(x.m)
            IN  IF t = Ty("int", "int") THEN Ty("pair", "int") ELSE IllTyped
      [] x.k = "TopWrapper" -> TypeOf(x.m)
      [] x.k = "DataTransducer" -> Ty("int", "int")
      [] OTHER -> IllTyped

MaxNodes == 3     \* combinator nodes of a transducer driven call by call
MaxCalls == 4     \* init / update / reset calls made on it

Leaves ==
    {epsilon("i+1"), epsilon("(x,x)"), epsilon("o1+o2"),
     atom("is_digit", "i+1")}

RECURSIVE TermsOfSize(_)
\* the transducers with n nodes whose construction type-checks and succeeds
TermsOfSize(n) ==
    IF n = 1 THEN Leaves
    ELSE LET un == UNION { {iterate(x), aggregate(x, "x1+x2"), top(x)} :
                           x \in TermsOfSize(n - 1) }
             bin == UNION { UNION {
                       {union(a, b), parcomp(a, b), concat(a, b)} :
                          a \in TermsOfSize(l), b \in TermsOfSize(n - 1 - l) }
                       : l \in 1..(n - 2) }
         IN  {x \in un \cup bin : TypeOf(x).ok}

Computations == UNION {TermsOfSize(n) : n \in 1..MaxNodes}

(***************************************************************************)
(* Automata built through the construction calls of DataTransducer, the    *)
(* transitions taken from test_reset, test_loop_1, test_loop_2 and         *)
(* test_popl19_ex1.                                                        *)
(***************************************************************************)
NSlots == 3       \* m.set_nstates(3), as in test_loop_1
MaxTranss == 2    \* transitions added to an automaton

DItems == {<<"a", 1>>, <<"b", 2>>}

AddCalls ==
    {[op |-> "add_epsilon1", source |-> 0, target |-> 1, action |-> "q"],
     [op |-> "add_epsilon1", source |-> 1, target |-> 2, action |-> "0"],
     [op |-> "add_epsilon1", source |-> 2, target |-> 0, action |-> "0"],
     [op |-> "add_epsilon2", source1 |-> 0, source2 |-> 1, target |-> 2,
      action |-> "0"],
     [op |-> "add_iden", source |-> 1, target |-> 1, guard |-> "true"],
     [op |-> "add_iden", source |-> 2, target |-> 2, guard |-> "is_b"],
     [op |-> "add_transition1", source |-> 0, target |-> 2, guard |-> "is_a",
      action |-> "d.1"],
     [op |-> "add_transition1", source |-> 2, target |-> 1, guard |-> "is_a",
      action |-> "q+d.1"],
     \* test_nonexistent_target: the target is not a slot of the automaton
     [op |-> "add_epsilon1", source |-> 0, target |-> NSlots, action |-> "q"]}

Add(self, c) ==
    CASE c.op = "add_epsilon1" ->
            add_epsilon1(self, c.source, c.target, c.action)
      [] c.op = "add_epsilon2" ->
            add_epsilon2(self, c.source1, c.source2, c.target, c.action)
      [] c.op = "add_iden" ->
            add_iden(self, c.source, c.target, c.guard)
      [] c.op = "add_transition1" ->
            add_transition1(self, c.source, c.target, c.guard, c.action)

RECURSIVE AutomataOfSize(_)
\* the automata that n construction calls return; a call that fails returns
\* no automaton
AutomataOfSize(n) ==
    IF n = 0 THEN {set_nstates(DataTransducer_new, NSlots)}
    ELSE {Add(a, c) : a \in AutomataOfSize(n - 1), c \in AddCalls} \ {Panic}

\* the automaton of test_loop_1: an epsilon cycle 0 -> 1 -> 2 -> 0
test_loop_1 ==
    add_epsilon1(
        add_epsilon1(
            add_epsilon1(set_nstates(DataTransducer_new, 3), 0, 1, "0"),
            1, 2, "0"),
        2, 0, "0")

\* the automaton of test_loop_2: cycles through two-source epsilons
test_loop_2 ==
    add_iden(
        add_epsilon1(
            add_epsilon2(
                add_epsilon2(
                    add_epsilon1(set_nstates(DataTransducer_new, 4),
                                 0, 1, "0"),
                    0, 1, 2, "0"),
                2, 3, 1, "0"),
            3, 0, "0"),
        2, 3, "true")

\* an automaton whose slot 2 is filled by an update transition from slot 0
\* and copied into the final slot by an epsilon transition
update_then_epsilon ==
    add_epsilon1(
        add_transition1(set_nstates(DataTransducer_new, 3),
                        0, 2, "is_a", "d.1"),
        2, 1, "q")

Automata ==
    (UNION {AutomataOfSize(n) : n \in 0..MaxTranss})
        \cup {test_loop_1, test_loop_2, update_then_epsilon}

(***************************************************************************)
(* One instance driven through init / update / reset, and a second one     *)
(* (twin) that a law of the Transducer trait says is indistinguishable     *)
(* from it: both receive the same calls and their outputs are recorded.    *)
(***************************************************************************)
IsAutomaton(x) == x.k = "DataTransducer"

Ones(x) ==
    IF TypeOf(x).i = "int" THEN {One(1), One(2)}
    ELSE {One(<<1, 1>>), One(<<2, 1>>)}

InitArgs(x) == {None, Many} \cup Ones(x)

ItemsOf(x) == IF IsAutomaton(x) THEN DItems ELSE Chars

Call(op, arg, l) == [op |-> op, arg |-> arg, law |-> l]

Init ==
    /\ debug \in BOOLEAN
    /\ proto \in Computations \cup Automata
    /\ m = proto
    /\ twin = proto
    /\ law = "none"
    /\ call = Call("new", None, "none")
    /\ out = None
    /\ tout = None
    /\ ncalls = 0
    /\ panicked = FALSE
    /\ self1 = Unused /\ transducers = Unused /\ strm = Unused
    /\ single_out = Unused /\ multi_out = Unused

\* what the caller of a call that panicked holds: no Ext value
NoOutput == [t |-> "panic"]

Step(c, r, rt, l) ==
    /\ m' = r.m
    /\ out' = IF r.ok THEN r.out ELSE NoOutput
    /\ twin' = rt.m
    /\ tout' = IF rt.ok THEN rt.out ELSE NoOutput
    /\ call' = c
    /\ law' = l
    /\ ncalls' = ncalls + 1
    /\ panicked' = ~(r.ok /\ rt.ok)
    /\ UNCHANGED <<debug, proto, self1, transducers, strm, single_out,
                   multi_out>>

CanCall == ~panicked /\ ncalls < MaxCalls

\* m.init(i) 
DoInit ==
    /\ CanCall
    /\ \E i \in InitArgs(proto) :
          Step(Call("init", i, "none"), init(m, i), init(twin, i), law)

\* m.update(&item)
DoUpdate ==
    /\ CanCall
    /\ \E d \in ItemsOf(proto) :
          Step(Call("update", d, "none"), update(m, d), update(twin, d), law)

\* m.reset()
DoReset ==
    /\ CanCall
    /\ Step(Call("reset", None, "none"),
            Ret(reset(m), None, TRUE), Ret(reset(twin), None, TRUE), law)

\* m = m.clone(): the instance is replaced by its clone
\* (DataTransducer does not implement Clone)
DoClone ==
    LET cloned(c) == Ret(c, None, c # Panic)
    IN  /\ CanCall
        /\ ~IsAutomaton(proto)
        /\ Step(Call("clone", None, "none"),
                cloned(clone(m)), cloned(clone(twin)), law)

\* INIT PROPERTY: .init(Ext::None) has no effect and returns None
LawInitNone ==
    /\ CanCall /\ law = "none"
    /\ Step(Call("init", None, "init_none"),
            init(m, None), Ret(m, None, TRUE), "init_none")

\* INIT PROPERTY: .init(Ext::Many) returns the union of calling
\* .init(Ext::One(x)) two times
LawInitMany ==
    LET twice(r1, r2) == Ret(r2.m, add(r1.out, r2.out), r1.ok /\ r2.ok)
        then(r1, b) == twice(r1, init(r1.m, b))
    IN  /\ CanCall /\ law = "none"
        /\ \E a \in Ones(proto), b \in Ones(proto) :
              Step(Call("init", Many, "init_many"),
                   init(m, Many), then(init(m, a), b), "init_many")

\* reset: restore the transducer to its original state
LawReset ==
    /\ CanCall /\ law = "none"
    /\ Step(Call("reset", None, "reset"),
            Ret(reset(m), None, TRUE), Ret(proto, None, TRUE), "reset")

\* is_epsilon: .update() is equivalent to .reset() and returns Ext::None
LawEpsilon ==
    /\ CanCall /\ law = "none"
    /\ is_epsilon(m)
    /\ \E d \in ItemsOf(proto) :
          Step(Call("update", d, "is_epsilon"),
               update(m, d), Ret(reset(m), None, TRUE), "is_epsilon")

Next ==
    \/ DoInit
    \/ DoUpdate
    \/ DoReset
    \/ DoClone
    \/ LawInitNone
    \/ LawInitMany
    \/ LawReset
    \/ LawEpsilon

Spec == Init /\ [][Next]_vars

(***************************************************************************)
(* The instances of test_popl19_ex1 (state_machine.rs) and test_concat     *)
(* (qre.rs), driven through init_one and update_val as the tests drive     *)
(* them: strm holds the calls made and single_out what they returned.      *)
(***************************************************************************)
MaxItems == 4       \* items fed to the automaton of test_popl19_ex1
MaxTestCalls == 8   \* calls made on the computation of test_concat

\* 0: initial, 1: final, sum of the last three 'a' events,
\* 2: sum of the last two, 3: the last 'a' event
test_popl19_ex1 ==
    add_transition1(
        add_transition1(
            add_transition1(
                add_iden(
                    add_iden(
                        add_iden(set_nstates(DataTransducer_new, 4),
                                 0, 0, "true"),
                        2, 2, "is_b"),
                    3, 3, "is_b"),
                0, 3, "is_a", "d.1"),
            3, 2, "is_a", "q+d.1"),
        2, 1, "is_a", "q+d.1")

test_concat == concat(atom("is_digit", "i+1"), atom("1_or_a", "i+1"))

update_val(self, d) == update(self, d)

\* the derived combinators, with the constants and the function they are
\* run on
Derived == {stream_iden, repeat(8), repeat(9), map("is_ascii_digit")}

TestItems(x) ==
    CASE IsAutomaton(x) ->
            {<<"a", 6>>, <<"a", 5>>, <<"a", 7>>, <<"b", 2>>, <<"#", 0>>}
      [] x \in Derived -> {"1", "b"}
      [] OTHER -> {"1", "2"}

\* the argument of the n-th init_one: repeat and map take the unit
TestInit(x, n) == IF x \in Derived \ {stream_iden} THEN <<>> ELSE n

\* the calls in strm that are init_one calls
Inits == {n \in DOMAIN strm : strm[n].op = "init"}

TInit ==
    /\ debug \in BOOLEAN
    /\ proto \in {test_popl19_ex1, test_concat} \cup Derived
    /\ m = proto
    /\ strm = <<>>
    /\ single_out = <<>>
    /\ call = Call("new", None, "none")
    /\ ncalls = 0
    /\ panicked = FALSE
    /\ self1 = Unused /\ transducers = Unused /\ multi_out = Unused
    /\ twin = Unused /\ law = Unused /\ out = Unused /\ tout = Unused

Called(c, r) ==
    /\ m' = r.m
    /\ strm' = Append(strm, c)
    /\ single_out' = Append(single_out, IF r.ok THEN r.out ELSE NoOutput)
    /\ call' = c
    /\ ncalls' = ncalls + 1
    /\ panicked' = ~r.ok
    /\ UNCHANGED <<debug, proto, self1, transducers, multi_out, twin, law,
                   out, tout>>

\* m.init_one(i): the automaton receives the single init_one(0) of its test,
\* the concat init_one(0), init_one(1), ... between its items
InitOne ==
    /\ ~panicked
    /\ IF IsAutomaton(proto) THEN ncalls = 0 ELSE ncalls < MaxTestCalls
    /\ Called(Call("init", One(TestInit(proto, Cardinality(Inits))), "none"),
              init_one(m, TestInit(proto, Cardinality(Inits))))

\* m.update_val(d)
UpdateVal ==
    /\ ~panicked
    /\ IF IsAutomaton(proto)
       THEN ncalls > 0 /\ ncalls < MaxItems + 1
       ELSE ncalls < MaxTestCalls
    /\ \E d \in TestItems(proto) :
          Called(Call("update", d, "none"), update_val(m, d))

TNext == InitOne \/ UpdateVal

TSpec == TInit /\ [][TNext]_vars

(***************************************************************************)
(* Construction: concat and iterate applied to sub-computations that       *)
(* exist and have the types the constructor's signature asks for.  m and   *)
(* twin hold the operands, out the constructor's result (Panic when the    *)
(* call fails).                                                            *)
(***************************************************************************)
Operands == Computations \cup {TestAggregate} \cup AutomataOfSize(1)

BInit ==
    /\ debug \in BOOLEAN
    /\ m \in Operands
    /\ twin \in Operands
    /\ call = Call("new", None, "none")
    /\ out = None
    /\ proto = Unused /\ law = Unused /\ tout = Unused /\ ncalls = 0
    /\ panicked = FALSE
    /\ self1 = Unused /\ transducers = Unused /\ strm = Unused
    /\ single_out = Unused /\ multi_out = Unused

Built(op, result) ==
    /\ call.op = "new"
    /\ call' = Call(op, None, "none")
    /\ out' = result
    /\ panicked' = (result = Panic)
    /\ UNCHANGED <<debug, proto, self1, transducers, strm, single_out,
                   multi_out, m, twin, law, tout, ncalls>>

\* concat(m1, m2) with M1: Transducer<X, D, Y>, M2: Transducer<Y, D, Z>
BuildConcat ==
    /\ TypeOf(m).o = TypeOf(twin).i
    /\ Built("concat", concat(m, twin))

\* iterate(m) with M: Transducer<X, D, X>
BuildIterate ==
    /\ TypeOf(m).i = TypeOf(m).o
    /\ Built("iterate", iterate(m))

BNext == BuildConcat \/ BuildIterate

BSpec == BInit /\ [][BNext]_vars

(***************************************************************************)
(* A DataTransducer from DataTransducer::new() on, through its             *)
(* construction calls and init / update / reset.  Slot indices are taken   *)
(* below, at and above the number of slots.  A call that panics leaves in  *)
(* m the automaton as the panic found it.                                  *)
(***************************************************************************)
MaxSlots == 3     \* the largest n handed to set_nstates
MaxOps == 3       \* calls made on the automaton

DIds == {0, MaxSlots - 1, MaxSlots}

RECURSIVE PushUntil(_, _, _)
\* the pushes of add_epsilon_core's loop up to the first source that is not
\* an index of eps_out
PushUntil(eps_out, ids, new_tr_id) ==
    IF ids = <<>> \/ ~in_range(eps_out, Head(ids)) THEN eps_out
    ELSE PushUntil([eps_out EXCEPT ![Head(ids) + 1] = Append(@, new_tr_id)],
                   Tail(ids), new_tr_id)

\* the automaton a panic of add_epsilon_core leaves behind
add_epsilon_core_unwound(self, tr) ==
    IF ~DebugAssert(trans_precond(self, tr)) THEN self
    ELSE [self EXCEPT
            !.eps_out = PushUntil(@, source_ids(tr), Len(self.epsilons))]

DInit ==
    /\ debug \in BOOLEAN
    /\ m = DataTransducer_new
    /\ call = Call("new", None, "none")
    /\ out = None
    /\ ncalls = 0
    /\ panicked = FALSE
    /\ proto = Unused /\ self1 = Unused /\ transducers = Unused
    /\ strm = Unused /\ single_out = Unused /\ multi_out = Unused
    /\ twin = Unused /\ law = Unused /\ tout = Unused

CanOp == ~panicked /\ ncalls < MaxOps

\* a construction call: result is what it returns, left what a panic leaves
Constructed(c, result, left) ==
    /\ call' = c
    /\ ncalls' = ncalls + 1
    /\ panicked' = (result = Panic)
    /\ m' = IF result = Panic THEN left ELSE result
    /\ out' = None
    /\ UNCHANGED <<debug, proto, self1, transducers, strm, single_out,
                   multi_out, twin, law, tout>>

\* init, update or reset
Used(c, r) ==
    /\ call' = c
    /\ ncalls' = ncalls + 1
    /\ panicked' = ~r.ok
    /\ m' = r.m
    /\ out' = IF r.ok THEN r.out ELSE NoOutput
    /\ UNCHANGED <<debug, proto, self1, transducers, strm, single_out,
                   multi_out, twin, law, tout>>

AddState ==
    CanOp /\ Constructed([op |-> "add_state"], add_state(m), m)

SetNStates ==
    /\ CanOp
    /\ \E n \in 1..MaxSlots :
          Constructed([op |-> "set_nstates", n |-> n], set_nstates(m, n), m)

AddTransition1 ==
    /\ CanOp
    /\ \E s \in DIds, t \in DIds :
          Constructed([op |-> "add_transition1", ids |-> <<s, t>>],
                      add_transition1(m, s, t, "is_a", "q+d.1"), m)

AddTransition2 ==
    /\ CanOp
    /\ \E s2 \in DIds, t \in DIds :
          Constructed([op |-> "add_transition2", ids |-> <<0, s2, t>>],
                      add_transition2(m, 0, s2, t, "true", "0"), m)

AddIden ==
    /\ CanOp
    /\ \E s \in DIds :
          Constructed([op |-> "add_iden", ids |-> <<s, 1>>],
                      add_iden(m, s, 1, "true"), m)

AddEpsilon1 ==
    /\ CanOp
    /\ \E s \in DIds, t \in DIds :
          Constructed([op |-> "add_epsilon1", ids |-> <<s, t>>],
                      add_epsilon1(m, s, t, "q"),
                      add_epsilon_core_unwound(m,
                          Trans1(s, t, "epsilon_guard", "q")))

AddEpsilon2 ==
    /\ CanOp
    /\ \E s2 \in DIds, t \in DIds :
          Constructed([op |-> "add_epsilon2", ids |-> <<0, s2, t>>],
                      add_epsilon2(m, 0, s2, t, "0"),
                      add_epsilon_core_unwound(m,
                          Trans2(0, s2, t, "epsilon_guard", "0")))

InitCall ==
    CanOp /\ Used([op |-> "init", arg |-> One(1)], init(m, One(1)))

UpdateCall ==
    CanOp /\ Used([op |-> "update", arg |-> <<"a", 1>>],
                  update(m, <<"a", 1>>))

ResetCall ==
    CanOp /\ Used([op |-> "reset"], Ret(reset(m), None, TRUE))

DNext ==
    \/ AddState
    \/ SetNStates
    \/ AddTransition1
    \/ AddTransition2
    \/ AddIden
    \/ AddEpsilon1
    \/ AddEpsilon2
    \/ InitCall
    \/ UpdateCall
    \/ ResetCall

DSpec == DInit /\ [][DNext]_vars

(***************************************************************************)
(* ext_value.rs: the operations on Ext applied to values.  m, twin, proto  *)
(* and self1 hold four Ext<i32> values (the receiver and the other         *)
(* operands), out what the operation returns or leaves in the receiver,    *)
(* tout how many times an apply called its function.                       *)
(***************************************************************************)
MaxVal == 2       \* the values x of One(x)

ExtVals == {None, Many} \cup {One(x) : x \in 1..MaxVal}

EInit ==
    /\ debug = FALSE
    /\ m \in ExtVals /\ twin \in ExtVals
    /\ proto \in ExtVals /\ self1 \in ExtVals
    /\ call = Call("new", None, "none")
    /\ out = None /\ tout = 0
    /\ ncalls = 0
    /\ panicked = FALSE
    /\ transducers = Unused /\ strm = Unused /\ single_out = Unused
    /\ multi_out = Unused /\ law = Unused

Applied(op, result, calls) ==
    /\ call.op = "new"
    /\ call' = Call(op, None, "none")
    /\ out' = result
    /\ tout' = calls
    /\ ncalls' = 1
    /\ UNCHANGED <<debug, proto, self1, transducers, strm, single_out,
                   multi_out, m, twin, law, panicked>>

\* m + twin
ExtAdd == Applied("add", add(m, twin), 0)

\* m += twin
ExtAddAssign == Applied("add_assign", add_assign(m, twin), 0)

\* m * twin
ExtMul == Applied("mul", mul(m, twin), 0)

\* m *= twin.to_unit()
ExtMulAssign == Applied("mul_assign", mul_assign(m, to_unit(twin)), 0)

\* m.split(|x| (x, x))
ExtSplit ==
    Applied("split", split(m, [fn |-> "EpsilonAction", action |-> "(x,x)"]), 0)

ExtToUnit == Applied("to_unit", to_unit(m), 0)

ExtAsRef == Applied("as_ref", as_ref(m), 0)

ExtIntoInner == Applied("into_inner", into_inner(m), 0)

\* Option::from(m)
ExtFrom == Applied("from", from_ext(m), 0)

ExtApply1 ==
    Applied("apply1", apply1([fn |-> "EpsilonAction", action |-> "i+1"], m),
            apply1_calls(m))

ExtApply2 ==
    Applied("apply2", apply2([fn |-> "ops::Add::add"], m, twin),
            apply2_calls(m, twin))

ExtApply3 ==
    Applied("apply3", apply3([fn |-> "vec_3"], m, twin, proto),
            apply3_calls(m, twin, proto))

ExtApply4 ==
    Applied("apply4", apply4([fn |-> "vec_4"], m, twin, proto, self1),
            apply4_calls(m, twin, proto, self1))

ENext ==
    \/ ExtAdd
    \/ ExtAddAssign
    \/ ExtMul
    \/ ExtMulAssign
    \/ ExtSplit
    \/ ExtToUnit
    \/ ExtAsRef
    \/ ExtIntoInner
    \/ ExtFrom
    \/ ExtApply1
    \/ ExtApply2
    \/ ExtApply3
    \/ ExtApply4

ESpec == EInit /\ [][ENext]_vars

(***************************************************************************)
(* Restartability (RSpec)                                                  *)
(***************************************************************************)
Restarts(es) == {n \in DOMAIN es : es[n].k = "Restart"}
Items(es) == {n \in DOMAIN es : es[n].k = "Item"}
LastOut == single_out[Len(single_out)]

\* C1: for iterate(m) with m built from epsilon, atom, union and concat, on
\* every restart-augmented stream the outputs of one instance equal,
\* position by position, the joined outputs of one instance per Restart.
C1_IterateRestartable ==
    (proto.k = "Iterate" /\ BuiltFrom(proto.m, FALSE)) => restartability_holds

\* iterate over a concat, two restarts, and a match that emits a value
C1_Witness ==
    /\ proto.k = "Iterate" /\ proto.m.k = "Concat"
    /\ BuiltFrom(proto.m, FALSE)
    /\ Cardinality(Restarts(strm)) >= 2
    /\ Items(strm) # {}
    /\ is_one(LastOut)
    /\ restartability_holds

\* C2: for concat(m1, m2) with m1 and m2 built from epsilon, atom, union,
\* concat and iterate, on every restart-augmented stream the single-instance
\* outputs equal the multi-instance outputs position by position.
C2_ConcatRestartable ==
    (/\ proto.k = "Concat"
     /\ BuiltFrom(proto.m1, TRUE)
     /\ BuiltFrom(proto.m2, TRUE)) => restartability_holds

\* a concat whose second part is an iterate, restarted between two items,
\* where outputs of both restarts meet in one position
C2_Witness ==
    /\ proto.k = "Concat" /\ proto.m2.k = "Iterate"
    /\ BuiltFrom(proto.m1, TRUE) /\ BuiltFrom(proto.m2, TRUE)
    /\ Len(strm) = 4
    /\ strm[1].k = "Restart" /\ strm[2].k = "Item"
    /\ strm[3].k = "Restart" /\ strm[4].k = "Item"
    /\ is_many(LastOut)
    /\ restartability_holds

\* C3: for every epsilon, every atom and every union of restartable parts,
\* on every restart-augmented stream (items before the first restart and
\* several restarts in a row included) the single-instance outputs equal the
\* multi-instance outputs position by position.
C3_LeavesUnionRestartable ==
    (\/ proto.k \in {"Epsilon", "Atom"}
     \/ /\ proto.k = "Union"
        /\ is_restartable(proto.m1) = "true"
        /\ is_restartable(proto.m2) = "true") => restartability_holds

\* an item before the first restart, then two restarts in a row, then an
\* item on which the union emits
C3_Witness ==
    /\ proto.k = "Union"
    /\ is_restartable(proto.m1) = "true" /\ is_restartable(proto.m2) = "true"
    /\ Len(strm) = 4
    /\ strm[1].k = "Item" /\ strm[2].k = "Restart"
    /\ strm[3].k = "Restart" /\ strm[4].k = "Item"
    /\ ~is_none(LastOut)
    /\ restartability_holds

\* two restarts in a row
TwoRestarts == <<Restart(1), Restart(2)>>

\* C4: aggregate is not restartable: on the stream Restart(1), Restart(2)
\* the single-instance outputs of concat(epsilon(x -> (x, x)),
\* aggregate(iterate(atom(is-digit, i+1)), +)) differ from the
\* multi-instance outputs.
C4_AggregateNotRestartable ==
    (proto = TestAggregate /\ strm = TwoRestarts)
        => (~panicked /\ single_out # multi_out)

\* the second restart makes the one instance emit Many, the fresh one One
C4_Witness ==
    /\ proto = TestAggregate /\ strm = TwoRestarts
    /\ is_many(single_out[2]) /\ is_one(multi_out[2])

(***************************************************************************)
(* Laws of the Transducer trait (Spec)                                     *)
(***************************************************************************)
\* the instance and its twin returned, and returned the same
SameOutputs == ~panicked /\ out = tout

\* C5: for every computation built from the combinators, in every reachable
\* state, init(None) returns None and every later init / update returns what
\* it returns on the instance that did not receive the call.
C5_InitNoneCombinators ==
    (law = "init_none" /\ ~IsAutomaton(proto)) => SameOutputs

\* an instance with state that received init(None) and later emits a value
C5_Witness ==
    /\ law = "init_none" /\ proto.k \in {"Iterate", "Aggregate", "Concat"}
    /\ call.op = "update" /\ is_one(out)
    /\ SameOutputs

\* C6: for every DataTransducer, in every reachable state, init(None)
\* returns None and changes no slot value.
C6_InitNoneAutomaton ==
    (IsAutomaton(proto) /\ call.law = "init_none")
        => (~panicked /\ out = None /\ m.states = twin.states)

\* C7: for every computation built from the combinators, in every reachable
\* state and for all a, b, init(Many) returns the join of the outputs of
\* init(One(a)) and init(One(b)), and every later call returns what it
\* returns on the instance that received those two calls.
C7_InitManyCombinators ==
    (law = "init_many" /\ ~IsAutomaton(proto)) => SameOutputs

\* init(Many) on an instance with state, after which an update emits Many
C7_Witness ==
    /\ law = "init_many" /\ proto.k \in {"Iterate", "Aggregate", "Concat"}
    /\ call.op = "update" /\ is_many(out)
    /\ SameOutputs

\* C8: after any calls followed by reset(), every later init / update
\* returns what it returns on a newly constructed instance of the same
\* computation (combinators and DataTransducer).
C8_ResetIsFresh == law = "reset" => out = tout

\* an iterate that learned it is loopy, was reset, and emits again, next to
\* a new instance that learns it on the same call
C8_Witness ==
    /\ law = "reset" /\ proto.k = "Iterate"
    /\ call.op = "init" /\ is_many(out)
    /\ m.loopy = "Some(true)"
    /\ SameOutputs

\* C9: for every computation whose is_epsilon() is true, in every reachable
\* state update(item) returns None and every later call returns what it
\* returns on the instance after reset().
C9_EpsilonUpdateIsReset == law = "is_epsilon" => SameOutputs

\* C10: is_epsilon() = true implies is_restartable() = true, wherever
\* is_restartable() returns a boolean.
C10_EpsilonImpliesRestartable ==
    (~IsAutomaton(m) /\ is_epsilon(m)
        /\ is_restartable(m) \in {"true", "false"})
        => is_restartable(m) = "true"

(***************************************************************************)
(* Static information                                                      *)
(***************************************************************************)
Metadata(x) ==
    [is_epsilon |-> is_epsilon(x), is_restartable |-> is_restartable(x),
     n_states |-> n_states(x), n_transs |-> n_transs(x)]

\* C11: is_epsilon, is_restartable, n_states and n_transs of an instance are
\* what they were at construction after every sequence of init, update,
\* reset and clone calls.
C11_MetadataConstant == ~panicked => Metadata(m) = Metadata(proto)

\* a top wrapper whose inner state changed and that was then cloned
C11_Witness ==
    /\ proto.k = "TopWrapper"
    /\ call.op = "clone"
    /\ m # proto
    /\ Metadata(m) = Metadata(proto)

\* C14: is_restartable() of a parcomp and of a DataTransducer ends in
\* unimplemented!() in every state: it never returns true or false.
C14_RestartableUnimplemented ==
    (proto.k \in {"ParComp", "DataTransducer"})
        => is_restartable(m) = "unimplemented"

\* a parcomp that has emitted a pair on an update
C14_Witness ==
    /\ proto.k = "ParComp"
    /\ call.op = "update" /\ is_one(out)
    /\ is_restartable(m) = "unimplemented"

\* C15: every init, update and reset call on an instance whose construction
\* succeeded (a combinator, or a DataTransducer built through set_nstates
\* and add_* calls that all returned) returns normally.
C15_Totality == ~panicked

\* what update(item) of an atom is to return when its buffer holds istate
AtomOutput(self, istate, item) ==
    IF ~AtomGuard(self.guard, item) THEN None
    ELSE CASE is_none(istate) -> None
           [] is_one(istate)  -> One(AtomAction(self.action, istate.v, item))
           [] is_many(istate) -> Many

\* C21: on an atom, init returns None and joins its argument into the
\* buffer; update(item) returns None when the guard fails and, when it
\* holds, One(f(x, item)) for a buffer One(x), Many for a buffer Many and
\* None for an empty buffer; after every update the buffer is None.
C21_AtomBuffer ==
    [][(proto.k = "Atom" /\ call'.op \in {"init", "update"}) =>
          /\ ~panicked'
          /\ call'.op = "init" =>
                (out' = None /\ m'.istate = add(m.istate, call'.arg))
          /\ call'.op = "update" =>
                /\ out' = AtomOutput(m, m.istate, call'.arg)
                /\ m'.istate = None]_vars

\* two inits were pending when a digit arrived: the update returned Many and
\* emptied the buffer
C21_Witness ==
    /\ proto.k = "Atom"
    /\ ncalls = 3
    /\ call.op = "update" /\ AtomGuard(m.guard, call.arg)
    /\ is_many(out)
    /\ is_none(m.istate)

(***************************************************************************)
(* top                                                                     *)
(***************************************************************************)
RECURSIVE Unwrapped(_)
\* the computation under any number of top wrappers
Unwrapped(x) == IF x.k = "TopWrapper" THEN Unwrapped(x.m) ELSE x

\* the call c made on x
Answer(x, c) ==
    CASE c.op = "init"   -> init(x, c.arg)
      [] c.op = "update" -> update(x, c.arg)
      [] c.op = "reset"  -> Ret(reset(x), None, TRUE)

\* C30: top(x), nested any number of times, answers every init, update and
\* reset as x does in the state these calls have brought it to, and leaves
\* x in the state the call leaves it in, so that the two return the same
\* outputs on every sequence of calls; its is_epsilon, is_restartable,
\* n_states and n_transs are those x reported when top was called.
C30_TopEquivalent ==
    [][proto.k = "TopWrapper" =>
          /\ Metadata(m') = Metadata(Unwrapped(proto))
          /\ call'.op \in {"init", "update", "reset"} =>
                LET same(r) ==
                        /\ out' = (IF r.ok THEN r.out ELSE NoOutput)
                        /\ r.ok => Unwrapped(m') = r.m
                IN  same(Answer(Unwrapped(m), call'))]_vars

\* a top of a top returned a value on an update, after an init
C30_Witness ==
    /\ proto.k = "TopWrapper" /\ proto.m.k = "TopWrapper"
    /\ call.op = "update"
    /\ is_one(out)
    /\ m.m.k = "TopWrapper"

(***************************************************************************)
(* The epsilon closure of DataTransducer                                   *)
(***************************************************************************)
\* None < One < Many
Level(e) == CASE is_none(e) -> 0 [] is_one(e) -> 1 [] is_many(e) -> 2

SlotVectors(n) == [1..n -> {None, One(1), Many}]

\* the automata eval_epsilons runs on when the next init or update is called
\* on x and, for a new automaton, x with every slot vector
ClosureInputs(x) ==
    {add_to_istate(x, i) : i \in InitArgs(x)}
        \cup {eval_updates(x, d) : d \in DItems}
        \cup (IF ncalls = 0
              THEN {[x EXCEPT !.states = sv] : sv \in SlotVectors(Len(x.states))}
              ELSE {})

\* how many steps of the closure joined transition id into its target
Joins(joined, id) == Cardinality({n \in DOMAIN joined : joined[n].tr = id})

StepsRaise(x, joined) ==
    /\ \A n \in DOMAIN joined : Level(joined[n].cur) < Level(joined[n].rec)
    /\ \A id \in 0..(Len(x.epsilons) - 1) : Joins(joined, id) <= 2

\* C16: eval_epsilons terminates on every automaton and slot vector, cyclic
\* or not: every step that is not skipped records a strictly higher value
\* (None < One < Many) for its transition than the one recorded before, and
\* no transition is joined into its target more than twice in one closure.
C16_ClosureTerminates ==
    (IsAutomaton(m) /\ ~panicked) =>
        \A x \in ClosureInputs(m) : StepsRaise(x, eval_epsilons(x).joined)

\* on the cycle of test_loop_1, emptied by an update, an init joins the
\* transition 0 -> 1 twice: once with One and once with Many
C16_Witness ==
    /\ proto = test_loop_1
    /\ call.op = "update"
    /\ \E i \in Ones(m) :
          Joins(eval_epsilons(add_to_istate(m, i)).joined, 0) = 2

RECURSIVE Contributions(_, _, _, _)
\* the join of the values on slot vector states of the epsilon transitions
\* n, n + 1, ... of self whose target is slot id
Contributions(self, states, id, n) ==
    IF n > Len(self.epsilons) THEN None
    ELSE add(IF target_id(self.epsilons[n]) = id
             THEN eval(self.epsilons[n], <<>>, states)
             ELSE None,
             Contributions(self, states, id, n + 1))

\* every slot: what the update pass gave it, joined with what the epsilon
\* transitions into it give on states
OneRound(self, base, states) ==
    [s \in DOMAIN states |->
        add(base[s], Contributions(self, states, s - 1, 1))]

RECURSIVE LeastFixedPoint(_, _, _)
\* the limit of OneRound iterated from states
LeastFixedPoint(self, base, states) ==
    LET until(sv) ==
            IF sv = states THEN states ELSE LeastFixedPoint(self, base, sv)
    IN  until(OneRound(self, base, states))

\* C17: when update(item) returns, the slot vector is the least fixed point
\* of the epsilon transitions over the result of the update pass: it is what
\* iterating the joins from the all-None vector converges to, and every slot
\* equals the join of its update contributions with the values, on the
\* final vector, of the epsilon transitions into it.
C17_UpdateLeastFixedPoint ==
    [][(IsAutomaton(m) /\ call'.op = "update" /\ ~panicked') =>
          /\ m'.states =
                LeastFixedPoint(m, eval_updates(m, call'.arg).states,
                                [s \in DOMAIN m.states |-> None])
          /\ m'.states =
                OneRound(m, eval_updates(m, call'.arg).states, m'.states)]_vars

\* test_loop_2 after an init and an update: the update pass moves slot 2 to
\* slot 3 and the closure raises the final slot to Many
C17_Witness ==
    /\ proto = test_loop_2
    /\ call.op = "update"
    /\ is_many(out)
    /\ ~panicked

\* source and target of the single-source epsilon transitions of x
Edges(x) ==
    {<<x.epsilons[n].source, x.epsilons[n].target>> :
        n \in {k \in DOMAIN x.epsilons : x.epsilons[k].k = "Trans1"}}

RECURSIVE Reach(_, _)
\* the slots reached from the slots S along E, S included
Reach(E, S) ==
    LET grow(T) == IF T = S THEN S ELSE Reach(E, T)
    IN  grow(S \cup {e[2] : e \in {d \in E : d[1] \in S}})

\* the slots reached from slot s along one edge or more
After(E, s) == Reach(E, {e[2] : e \in {d \in E : d[1] = s}})

\* the slots on a cycle of single-source epsilon transitions through slot 0
CycleSlots(x) ==
    {s \in After(Edges(x), 0) : 0 \in After(Edges(x), s)}

AllNone(x) == \A s \in DOMAIN x.states : is_none(x.states[s])

\* every epsilon transition of x names slots of x
SlotsExist(x) == \A n \in DOMAIN x.epsilons : trans_precond(x, x.epsilons[n])

\* C18: init with a non-None value on an automaton whose transitions name
\* existing slots and whose slots are all None (new, after an update or
\* after reset) returns, leaves every slot on an epsilon cycle through
\* slot 0 Many, and returns Many when slot 1 is on the cycle.
C18_EpsilonCycleMany ==
    [][(/\ IsAutomaton(m) /\ AllNone(m)
        /\ SlotsExist(m) /\ CycleSlots(m) # {}
        /\ call'.op = "init" /\ ~is_none(call'.arg)) =>
          /\ ~panicked'
          /\ \A s \in CycleSlots(m) : is_many(m'.states[s + 1])
          /\ (FSTATE_ID \in CycleSlots(m)) => is_many(out')]_vars

\* test_loop_1 after an init, a reset and an init with One
C18_Witness ==
    /\ proto = test_loop_1
    /\ CycleSlots(m) = {0, 1, 2}
    /\ law = "reset" /\ ncalls = 3
    /\ call.op = "init" /\ is_one(call.arg)
    /\ is_many(out)
    /\ \A s \in DOMAIN m.states : is_many(m.states[s])

(***************************************************************************)
(* The tests of the repository (TSpec)                                     *)
(***************************************************************************)
\* the arguments of the calls made
Args == [n \in DOMAIN strm |-> strm[n].arg]

IsA(d) == d[1] = "a"

\* the position in items of the last item that is neither 'a' nor 'b'
LastBreak(items) ==
    LET B == {n \in DOMAIN items : items[n][1] \notin {"a", "b"}}
    IN  IF B = {} THEN 0 ELSE CHOOSE n \in B : \A k \in B : k <= n

\* the 'a' items after the last item that is neither 'a' nor 'b'
RunOfA(items) ==
    SelectSeq(SubSeq(items, LastBreak(items) + 1, Len(items)), IsA)

SumOfLastThree(as) ==
    IF Len(as) < 3 THEN None
    ELSE One(as[Len(as)][2] + as[Len(as) - 1][2] + as[Len(as) - 2][2])

\* what the update on the last of items is to return
ExpectedSum(items) ==
    IF IsA(items[Len(items)]) THEN SumOfLastThree(RunOfA(items)) ELSE None

PoplTrace == <<One(0), <<"a", 6>>, <<"b", 2>>, <<"a", 5>>, <<"a", 7>> >>

\* C19: on the automaton of test_popl19_ex1 after the single init(One(0)),
\* which returns None, update on ('a', v) returns One of the sum of v and the
\* two preceding 'a' values when three 'a' items or more have occurred since
\* the last item that is neither 'a' nor 'b' (or since the init), and None
\* otherwise; update on another item returns None; init(0), ('a',6),
\* ('b',2), ('a',5), ('a',7) returns None, None, None, None, One(18).
C19_SumOfLastThreeA ==
    proto = test_popl19_ex1 =>
        /\ ~panicked
        /\ \A k \in DOMAIN strm :
              single_out[k] =
                IF k = 1 THEN None ELSE ExpectedSum(SubSeq(Args, 2, k))
        /\ Args = PoplTrace =>
              single_out = <<None, None, None, None, One(18)>>

\* the trace of the test was run and its last update returned One(18)
C19_Witness ==
    /\ proto = test_popl19_ex1
    /\ Args = PoplTrace
    /\ single_out[5] = One(18)

ConcatTrace ==
    <<Call("init", One(0), "none"), Call("update", "1", "none"),
      Call("init", One(1), "none"), Call("update", "1", "none"),
      Call("init", One(2), "none"), Call("update", "2", "none"),
      Call("init", One(3), "none"), Call("update", "1", "none")>>

\* the calls made are those of trace
Ran(trace) ==
    /\ Len(strm) = Len(trace)
    /\ \A n \in DOMAIN trace :
          strm[n].op = trace[n].op /\ strm[n].arg = trace[n].arg

\* C20 as stated: on a new concat of test_concat, init(0), update('1'),
\* init(1), update('1'), init(2), update('2'), init(3), update('1') returns
\* None seven times and then One(4).
C20_ConcatTraceStated ==
    (proto = test_concat /\ Ran(ConcatTrace)) =>
        single_out = <<None, None, None, None, None, None, None, One(4)>>

\* C20: on a new concat of test_concat the same calls return None, None,
\* None, One(2), None, None, None, One(4): the second update('1') lets m2
\* emit for the value m1 emitted on the first.
C20_ConcatTrace ==
    (proto = test_concat /\ Ran(ConcatTrace)) =>
        single_out = <<None, None, None, One(2), None, None, None, One(4)>>

\* the eight calls were made; the fourth returned One(2), the last One(4)
C20_Witness ==
    /\ proto = test_concat
    /\ Ran(ConcatTrace)
    /\ single_out[4] = One(2)
    /\ single_out[8] = One(4)

(***************************************************************************)
(* The algebra of Ext (ESpec)                                              *)
(***************************************************************************)
\* the join of the claim: None is the identity, everything else gives Many
Join(a, b) ==
    IF is_none(a) THEN b ELSE IF is_none(b) THEN a ELSE Many

\* C25: None + x = x = x + None, One(a) + One(b) = Many also for a = b,
\* Many + x = Many = x + Many; the join is commutative and associative, and
\* a += b leaves a + b in a.
C25_Join ==
    /\ call.op = "add" =>
          /\ out = Join(m, twin)
          /\ out = add(twin, m)
          /\ add(out, proto) = add(m, add(twin, proto))
    /\ call.op = "add_assign" =>
          /\ out = add(m, twin)
          /\ add_assign(out, proto) = add(add(m, twin), proto)

\* One(a) += One(a) left Many
C25_Witness ==
    /\ call.op = "add_assign"
    /\ is_one(m) /\ twin = m
    /\ out = Many

\* C26: None * x = None = x * None for every x, Many included;
\* One(a) * One(b) = One((a, b)) in this order; One(a) * Many =
\* Many * One(a) = Many * Many = Many.
C26_Product ==
    call.op = "mul" =>
        out = CASE is_none(m) \/ is_none(twin) -> None
                [] is_one(m) /\ is_one(twin)    -> One(<<m.v, twin.v>>)
                [] OTHER                        -> Many

\* two different values were paired, the receiver's first
C26_Witness ==
    /\ call.op = "mul"
    /\ is_one(m) /\ is_one(twin) /\ m.v < twin.v
    /\ out = One(<<m.v, twin.v>>)

\* the inputs of the apply that was called
ApplyInputs ==
    CASE call.op = "apply1" -> {m}
      [] call.op = "apply2" -> {m, twin}
      [] call.op = "apply3" -> {m, twin, proto}
      [] call.op = "apply4" -> {m, twin, proto, self1}

\* C27: apply1 .. apply4 return None when an input is None, whatever the
\* others are, Many when no input is None and one is Many, and One(f(x1,
\* .., xN)) when every input is One(xi); f is called once in the last case
\* and not at all in the others.
C27_Apply ==
    call.op \in {"apply1", "apply2", "apply3", "apply4"} =>
        CASE \E v \in ApplyInputs : is_none(v) -> out = None /\ tout = 0
          [] \E v \in ApplyInputs : is_many(v) -> out = Many /\ tout = 0
          [] OTHER ->
               /\ tout = 1
               /\ out = CASE call.op = "apply1" -> One(m.v + 1)
                          [] call.op = "apply2" -> One(m.v + twin.v)
                          [] call.op = "apply3" ->
                               One(<<m.v, twin.v, proto.v>>)
                          [] call.op = "apply4" ->
                               One(<<m.v, twin.v, proto.v, self1.v>>)

\* apply4 with Many before a None: None, the function not called
C27_Witness ==
    /\ call.op = "apply4"
    /\ is_one(m) /\ is_many(twin) /\ is_none(proto) /\ is_one(self1)
    /\ out = None /\ tout = 0

\* C28, as far as the conversion goes: into_inner and Option::from map
\* One(x) to Some(x) and every other value, Many as well as None, to the
\* absent Option; the conversion does not tell Many from None.
C28_IntoInner ==
    call.op \in {"into_inner", "from"} =>
        out = CASE is_one(m) -> Some(m.v)
                [] OTHER     -> OptionNone

\* C28 as stated: None maps to absent, One(x) to present with x and Many to
\* present with some value, so that the presence of a Many survives.
C28_IntoInnerStated ==
    call.op \in {"into_inner", "from"} =>
        CASE is_none(m) -> out = OptionNone
          [] is_one(m)  -> out = Some(m.v)
          [] is_many(m) -> out.t = "Some"

\* a Many was converted and came out as the absent Option
C28_Witness ==
    /\ call.op = "from"
    /\ is_many(m)
    /\ out = OptionNone

\* the Ext inputs of the operation that was called
ExtInputs ==
    CASE call.op \in {"add", "add_assign", "mul", "mul_assign"} -> {m, twin}
      [] call.op \in {"split", "to_unit", "as_ref"} -> {m}
      [] OTHER -> ApplyInputs

\* the result positions of the operation that was called
ResultPositions == IF call.op = "split" THEN {out[1], out[2]} ELSE {out}

\* C29: no operation of join, in-place join, product, in-place product,
\* split, to_unit, as_ref and apply1 .. apply4 returns One in a result
\* position when one of its Ext inputs is Many: the result is Many or None.
C29_ManyIrrecoverable ==
    /\ call.op \in {"add", "add_assign", "mul", "mul_assign", "split",
                     "to_unit", "as_ref", "apply1", "apply2", "apply3",
                     "apply4"}
    /\ \E v \in ExtInputs : is_many(v)
    => \A r \in ResultPositions : is_many(r) \/ is_none(r)

\* a product assigned in place had a One receiver and a Many operand
C29_Witness ==
    /\ call.op = "mul_assign"
    /\ is_one(m) /\ is_many(twin)
    /\ out = Many

(***************************************************************************)
(* Construction of a DataTransducer (DSpec)                                *)
(***************************************************************************)
AddOps ==
    {"add_transition1", "add_transition2", "add_iden", "add_epsilon1",
     "add_epsilon2"}

\* the number of update and epsilon transitions of x
Transitions(x) == Len(x.updates) + Len(x.epsilons)

SameTransitions(x, y) ==
    /\ x.updates = y.updates
    /\ x.epsilons = y.epsilons
    /\ x.eps_out = y.eps_out

\* every slot index the call names is a slot of x
NamesSlotsOf(c, x) == \A n \in DOMAIN c.ids : c.ids[n] < Len(x.states)

\* C22: an add_* call naming a slot index that is not smaller than the
\* number of slots fails at the call and leaves the update list, the epsilon
\* list and eps_out as they were; a call naming existing slots only returns
\* and adds exactly one transition.
C22_AddChecksSlots ==
    [][(call'.op \in AddOps) =>
          IF NamesSlotsOf(call', m)
          THEN ~panicked' /\ Transitions(m') = Transitions(m) + 1
          ELSE panicked' /\ SameTransitions(m', m)]_vars

\* C23: set_nstates(n) fails when n is smaller than the number of slots;
\* otherwise it returns with exactly n slots, the new ones None, the slot
\* values and the transitions there were unchanged.  No call makes the
\* number of slots smaller.
C23_SetNStates ==
    [][/\ Len(m'.states) >= Len(m.states)
       /\ (call'.op = "set_nstates") =>
             IF call'.n < Len(m.states)
             THEN panicked' /\ m' = m
             ELSE /\ ~panicked'
                  /\ Len(m'.states) = call'.n
                  /\ SubSeq(m'.states, 1, Len(m.states)) = m.states
                  /\ \A s \in (Len(m.states) + 1)..call'.n :
                        is_none(m'.states[s])
                  /\ m'.updates = m.updates
                  /\ m'.epsilons = m.epsilons
                  /\ SubSeq(m'.eps_out, 1, Len(m.eps_out)) = m.eps_out]_vars

\* an automaton with a transition and a value in a slot was grown
C23_Witness ==
    /\ call.op = "set_nstates" /\ ~panicked
    /\ Len(m.states) = MaxSlots
    /\ Transitions(m) > 0
    /\ \E s \in DOMAIN m.states : ~is_none(m.states[s])

\* the (slot, position) pairs of the entries of eps_out
EpsOutEntries(x) ==
    UNION {{<<s, j>> : j \in DOMAIN x.eps_out[s]} : s \in DOMAIN x.eps_out}

\* the (epsilon transition, source position) pairs
EpsilonSources(x) ==
    UNION {{<<n, k>> : k \in DOMAIN source_ids(x.epsilons[n])} :
              n \in DOMAIN x.epsilons}

\* C24: after every call on a DataTransducer that returned there are at
\* least 2 slots, eps_out has one entry per slot, eps_out holds as many
\* transition ids as there are (epsilon transition, source) pairs, and every
\* id in eps_out[s] is an epsilon transition with s among its sources.
C24_StructuralInvariant ==
    ~panicked =>
        /\ Len(m.states) >= 2
        /\ Len(m.eps_out) = Len(m.states)
        /\ Cardinality(EpsOutEntries(m)) = Cardinality(EpsilonSources(m))
        /\ \A s \in DOMAIN m.eps_out : \A j \in DOMAIN m.eps_out[s] :
              /\ m.eps_out[s][j] < Len(m.epsilons)
              /\ \E k \in DOMAIN source_ids(At(m.epsilons, m.eps_out[s][j])) :
                    source_ids(At(m.epsilons, m.eps_out[s][j]))[k] = s - 1

\* an automaton with a two-source epsilon transition on a slot added by
\* add_state or set_nstates, after an init
C24_Witness ==
    /\ ~panicked
    /\ call.op = "init"
    /\ Len(m.states) > 2
    /\ \E n \in DOMAIN m.epsilons :
          m.epsilons[n].k = "Trans2" /\ m.epsilons[n].source2 = 2

(***************************************************************************)
(* Construction (BSpec)                                                    *)
(***************************************************************************)
\* C12: concat(m1, m2) returns a computation exactly when
\* m2.is_restartable() holds or m1.is_epsilon() holds, and fails at the call
\* otherwise, also when the restartability of an operand is not computed.
C12_ConcatConstruction ==
    call.op = "concat" =>
        ((out # Panic) <=> (is_restartable(twin) = "true" \/ is_epsilon(m)))

\* C13: iterate(m) returns a computation exactly when m.is_restartable() is
\* true and fails at the call otherwise, and every Iterate that exists
\* reports is_restartable() = true.
C13_IterateConstruction ==
    call.op = "iterate" =>
        /\ (out # Panic) <=> (is_restartable(m) = "true")
        /\ (out # Panic) => (is_restartable(out) = "true")

\* iterate over a computation that contains an aggregate fails
C13_Witness ==
    /\ call.op = "iterate"
    /\ m = TestAggregate
    /\ is_restartable(m) = "false"
    /\ out = Panic

(***************************************************************************)
(* Metadata                                                                *)
(***************************************************************************)
\* is_restartable of a union or concat x, where it returns: true exactly
\* when both parts answer true
BothRestartable(x) ==
    /\ (is_restartable(x.m1) = "true" /\ is_restartable(x.m2) = "true")
          => is_restartable(x) = "true"
    /\ is_restartable(x) = "true"
          => (is_restartable(x.m1) = "true" /\ is_restartable(x.m2) = "true")
    /\ (is_restartable(x.m1) = "false" /\ is_restartable(x.m2) = "false")
          => is_restartable(x) = "false"

\* what the claim says of x, given what x's parts report
MetadataOf(x) ==
    CASE x.k = "Epsilon" ->
            /\ n_states(x) = 0 /\ n_transs(x) = 1
            /\ is_epsilon(x) /\ is_restartable(x) = "true"
      [] x.k = "Atom" ->
            /\ n_states(x) = 1 /\ n_transs(x) = 1
            /\ ~is_epsilon(x) /\ is_restartable(x) = "true"
      [] x.k \in {"Union", "ParComp", "Concat"} ->
            /\ n_states(x) = n_states(x.m1) + n_states(x.m2)
            /\ n_transs(x) = n_transs(x.m1) + n_transs(x.m2)
            /\ is_epsilon(x) <=> (is_epsilon(x.m1) /\ is_epsilon(x.m2))
            /\ x.k \in {"Union", "Concat"} => BothRestartable(x)
      [] x.k = "Iterate" ->
            /\ n_states(x) = n_states(x.m) + 1
            /\ n_transs(x) = n_transs(x.m)
            /\ is_restartable(x) = "true"
      [] x.k = "Aggregate" ->
            /\ n_states(x) = n_states(x.m) + 1
            /\ n_transs(x) = n_transs(x.m) + 1
            /\ is_restartable(x) = "false"
      [] x.k = "DataTransducer" ->
            /\ n_states(x) = Len(x.states)
            /\ n_transs(x) = Len(x.updates) + Len(x.epsilons)
            /\ is_epsilon(x) <=> (Len(x.updates) = 0)
      [] OTHER -> TRUE

RECURSIVE Parts(_)
\* x and the computations it is built from
Parts(x) ==
    {x} \cup
    CASE x.k \in {"Union", "ParComp", "Concat"} -> Parts(x.m1) \cup Parts(x.m2)
      [] x.k \in {"Iterate", "Aggregate", "TopWrapper"} -> Parts(x.m)
      [] OTHER -> {}

\* C31: the metadata follows the structure: epsilon 0 states, 1 transition,
\* is_epsilon and is_restartable; atom 1 state, 1 transition, not epsilon,
\* restartable; union, parcomp and concat the sums of their parts, epsilon
\* iff both parts are, union and concat restartable iff both parts are;
\* iterate(m) m's states + 1, m's transitions, restartable; aggregate(m)
\* m's states + 1, m's transitions + 1, not restartable; a DataTransducer
\* its slots, updates + epsilons, epsilon iff it has no update transition.
C31_MetadataFromStructure ==
    ~panicked => \A x \in Parts(m) : MetadataOf(x)

\* an aggregate over an iterate that has returned a value
C31_Witness ==
    /\ m.k = "Aggregate" /\ m.m.k = "Iterate"
    /\ is_one(out)
    /\ n_states(m) = n_states(m.m.m) + 2
    /\ n_transs(m) = n_transs(m.m.m) + 1
    /\ is_restartable(m) = "false" /\ is_restartable(m.m) = "true"

(***************************************************************************)
(* The update pass of DataTransducer                                       *)
(***************************************************************************)
RECURSIVE UpdateContributions(_, _, _, _, _)
\* the join of the values on slot vector states of the update transitions
\* n, n + 1, ... of self whose guard accepts item and whose target is slot id
UpdateContributions(self, item, states, id, n) ==
    IF n > Len(self.updates) THEN None
    ELSE add(IF /\ target_id(self.updates[n]) = id
                /\ TransGuard(self.updates[n].guard, item)
             THEN eval(self.updates[n], item, states)
             ELSE None,
             UpdateContributions(self, item, states, id, n + 1))

\* the epsilon transitions of self into slot id
EpsilonsInto(self, id) ==
    {n \in DOMAIN self.epsilons : target_id(self.epsilons[n]) = id}

\* C32: update(item) carries no slot value forward: a slot that receives
\* no value from an update transition accepting item, evaluated on the slot
\* vector before the call, and that no epsilon transition raises on the
\* vector after the call, is None, slot 0 included; a slot no epsilon
\* transition leads into holds exactly the join of these update values.
C32_NoCarry ==
    [][(IsAutomaton(m) /\ call'.op = "update" /\ ~panicked') =>
          \A s \in DOMAIN m.states :
              LET fresh == UpdateContributions(m, call'.arg, m.states,
                                               s - 1, 1)
              IN  /\ (/\ is_none(fresh)
                      /\ is_none(Contributions(m, m'.states, s - 1, 1)))
                        => is_none(m'.states[s])
                  /\ EpsilonsInto(m, s - 1) = {} => m'.states[s] = fresh]_vars

\* a value fed by init reached the final slot and stayed there through an
\* update, while slot 0 was emptied
C32_Witness ==
    /\ IsAutomaton(m)
    /\ ncalls = 2 /\ call.op = "update" /\ law = "none"
    /\ is_one(out)
    /\ is_none(m.states[ISTATE_ID + 1])

(***************************************************************************)
(* Ordering inside Concat::update                                          *)
(***************************************************************************)
\* what update(item) on the concat x is to return and leave, when y is the
\* result of m1.update(item) and z1 that of m2.update(item), both on the
\* parts as they were before the call
ConcatStep(x, xn, o, y, z1) ==
    LET joined(z2) ==
            /\ o = add(z1.out, z2.out)
            /\ xn.m1 = y.m /\ xn.m2 = z2.m
            /\ is_none(z2.out) => o = z1.out
    IN  joined(init(z1.m, y.out))

\* C33: in concat(m1, m2).update(item), m2 processes the item in the state
\* it had before the call and only then receives m1's output for the item
\* through init; the call returns m2.update(item) joined with
\* m2.init(m1.update(item)).  A value m1 emits on an item is therefore in
\* m2 for the later items only, or returned at once when m2 emits on init.
C33_ConcatOrder ==
    [][(proto.k = "Concat" /\ call'.op = "update" /\ ~panicked') =>
          ConcatStep(m, m', out',
                     update(m.m1, call'.arg), update(m.m2, call'.arg))]_vars

\* concat of two atoms: the first atom emitted on this item, the second holds
\* the value for the next item, and the call returned None
C33_Witness ==
    /\ proto.k = "Concat" /\ proto.m1.k = "Atom" /\ proto.m2.k = "Atom"
    /\ call.op = "update"
    /\ is_none(out)
    /\ is_one(m.m2.istate)

(***************************************************************************)
(* Iterate                                                                 *)
(***************************************************************************)
\* x returns a value on an init of One, as an epsilon does
EmitsOnInit(x) == \A i \in Ones(x) : ~is_none(init(x, i).out)

\* x returns None on every init that is not None
SilentOnInit(x) ==
    \A i \in Ones(x) \cup {Many} : init(x, i).ok /\ is_none(init(x, i).out)

\* C34: when m returns a value on init, every output of iterate(m), from an
\* init that is not None and from every update, is None or Many and never
\* One; one init(One(x)) on a new iterate(m) returns Many.
C34_LoopyIterate ==
    (/\ proto.k = "Iterate" /\ EmitsOnInit(proto.m)
     /\ call.op \in {"init", "update"} /\ ~panicked) =>
        /\ is_none(out) \/ is_many(out)
        /\ (ncalls = 1 /\ call.op = "init" /\ is_one(call.arg)) => is_many(out)

\* iterate over an epsilon answered Many to its first init, of a One
C34_Witness ==
    /\ proto.k = "Iterate" /\ proto.m.k = "Epsilon"
    /\ ncalls = 1 /\ call.op = "init" /\ is_one(call.arg)
    /\ is_many(out)
    /\ m.loopy = "Some(true)"

\* C35: when m returns None on init, iterate(m).init(i) hands i to m.init
\* and returns i, One(x) as One(x) and Many as Many, and
\* iterate(m).update(item) returns the output o of m.update(item) and hands
\* o to m.init, so that a complete match of m restarts m with its output.
C35_PlainIterate ==
    [][(/\ proto.k = "Iterate" /\ SilentOnInit(proto.m)
        /\ call'.op \in {"init", "update"} /\ ~panicked') =>
          LET restarted(o, r) == out' = o /\ m'.m = r.m
              fed(r) == restarted(r.out, init(r.m, r.out))
          IN  IF call'.op = "init"
              THEN is_none(call'.arg)
                   \/ restarted(call'.arg, init(m.m, call'.arg))
              ELSE fed(update(m.m, call'.arg))]_vars

\* iterate over an atom returned the value of a match and holds it for the
\* next one
C35_Witness ==
    /\ proto.k = "Iterate" /\ proto.m.k = "Atom"
    /\ call.op = "update"
    /\ is_one(out)
    /\ m.m.istate = out
    /\ m.loopy = "Some(false)"

(***************************************************************************)
(* Aggregate                                                               *)
(***************************************************************************)
\* what a call on an aggregate is to return and store when m emitted y and
\* the accumulator, the z of an init joined in, was acc
Folded(x, xn, o, acc, y) ==
    CASE is_none(y)               -> o = None /\ xn.agg = acc
      [] is_none(acc)             -> o = None /\ xn.agg = None
      [] is_one(y) /\ is_one(acc) ->
            o = One(AggFun(x.agg_fun, acc.v, y.v)) /\ xn.agg = o
      [] OTHER                    -> o = Many /\ xn.agg = Many

\* the two halves of the argument of an init
Halves(i) ==
    CASE is_none(i) -> <<None, None>>
      [] is_one(i)  -> <<One(i.v[1]), One(i.v[2])>>
      [] is_many(i) -> <<Many, Many>>

\* C36: aggregate(m, combine) folds the outputs of m.  init(One((x, z)))
\* joins z into the accumulator and hands x to m.init.  On every init and
\* update: m emitting None gives None and leaves the accumulator; m emitting
\* a value on an empty accumulator gives None; One(y) on One(acc) gives
\* One(combine(acc, y)), which is stored; otherwise, one of the two being
\* Many, the call gives Many and the accumulator is Many, which it stays
\* until reset.
C36_AggregateFolds ==
    [][(proto.k = "Aggregate" /\ ~panicked') =>
          /\ call'.op = "init" =>
                LET folded(y, z) ==
                        /\ m'.m = y.m
                        /\ Folded(m, m', out', add(m.agg, z), y.out)
                    halves(xz) == folded(init(m.m, xz[1]), xz[2])
                IN  halves(Halves(call'.arg))
          /\ call'.op = "update" =>
                LET folded(y) ==
                        /\ m'.m = y.m
                        /\ Folded(m, m', out', m.agg, y.out)
                IN  folded(update(m.m, call'.arg))
          /\ (is_many(m.agg) /\ call'.op # "reset") => is_many(m'.agg)
          /\ call'.op = "reset" => is_none(m'.agg)]_vars

\* an update on which m emitted folded its value into the accumulator
C36_Witness ==
    /\ proto.k = "Aggregate"
    /\ call.op = "update"
    /\ is_one(out) /\ m.agg = out
    /\ out.v > 2

(***************************************************************************)
(* Derived combinators (TSpec)                                             *)
(***************************************************************************)
\* what the n-th call of a run with the single init at position k is to
\* return
DerivedOutput(k, n) ==
    CASE n < k -> None
      [] proto = stream_iden -> strm[k].arg
      [] proto = repeat(8)   -> One(8)
      [] proto = repeat(9)   -> One(9)
      [] proto = map("is_ascii_digit") ->
            IF n = k THEN None ELSE One(is_ascii_digit(strm[n].arg))

\* C37: after exactly one init, of a One, stream_iden returns One(i) on the
\* init(One(i)) and on every later update, repeat(c) returns One(c) on the
\* init and on every update, and map(f) returns None on the init and
\* One(f(d)) on the update with every item d; without an init the three
\* return None on every update.
C37_Derived ==
    (proto \in Derived /\ ~panicked) =>
        /\ Inits = {} => \A n \in DOMAIN single_out : single_out[n] = None
        /\ \A k \in Inits :
              Inits = {k} =>
                  \A n \in DOMAIN single_out :
                      single_out[n] = DerivedOutput(k, n)

\* map(is_ascii_digit) mapped a digit and a letter after its init
C37_Witness ==
    /\ proto = map("is_ascii_digit")
    /\ Inits = {1}
    /\ Len(single_out) = 4
    /\ single_out[2] = One(TRUE) /\ single_out[3] = One(FALSE)

(***************************************************************************)
(* ParComp (RSpec)                                                         *)
(***************************************************************************)
\* the pair of two outputs: None if one is None, One of the pair if both
\* are One, Many otherwise
Paired(a, b) ==
    CASE is_none(a) \/ is_none(b) -> None
      [] is_one(a) /\ is_one(b)   -> One(<<a.v, b.v>>)
      [] OTHER                    -> Many

\* a restart, a digit, a second restart and a digit
RestartedMidMatch == <<Restart(1), Item("1"), Restart(2), Item("1")>>

\* C38: parcomp(m1, m2) returns on every init and update the product of the
\* outputs of m1 and m2, so that a value of one restart is paired with a
\* value of another: on the stream Restart(1), '1', Restart(2), '1' the
\* single instance of parcomp(a, concat(a, a)), a = atom(is-digit,
\* i + digit), returns outputs that differ from the joined outputs of one
\* instance per Restart, which is to say it is not restartable.
C38_ParCompPairsRestarts ==
    [][(proto.k = "ParComp" /\ ~panicked') =>
          /\ LET product(r1, r2) ==
                     single_out'[Len(single_out')] = Paired(r1.out, r2.out)
                 on(ev) ==
                     product(process_rstream_single(self1.m1, ev),
                             process_rstream_single(self1.m2, ev))
             IN  on(strm'[Len(strm')])
          /\ strm' = RestartedMidMatch => single_out' # multi_out']_vars

\* the one instance pairs the value of the first restart, through concat,
\* with the value of the second; no instance of its own restart emits
C38_Witness ==
    /\ proto = test_parcomp_not_restarable
    /\ strm = RestartedMidMatch
    /\ single_out[4] = One(<<3, 3>>)
    /\ multi_out[4] = None

(***************************************************************************)
(* eval_epsilons, one iteration of its loop at a time (WSpec): the          *)
(* transition is taken from any position of the worklist, the last one,    *)
(* which `trans_wklist.pop()` takes, included.                             *)
(***************************************************************************)
\* the list without its n-th element
Without(list, n) == SubSeq(list, 1, n - 1) \o SubSeq(list, n + 1, Len(list))

\* the body of `while let Some(tr_id) = trans_wklist.pop()` without
\* `for &eps_id in &self.eps_out[tgt_id] { trans_wklist.push(eps_id); }`
eval_epsilons_pop_no_push(self, trans_wklist, trans_vals, n) ==
    LET tr_id  == trans_wklist[n]
        rest   == Without(trans_wklist, n)
        cur    == At(trans_vals, tr_id)
        tgt_id == target_id(At(self.epsilons, tr_id))
        skip   == [m |-> self, wklist |-> rest, vals |-> trans_vals,
                   ok |-> TRUE]
        increase(new) ==
            IF is_none(new) \/ (is_one(new) /\ is_one(cur)) THEN skip
            ELSE [m |-> [self EXCEPT !.states[tgt_id + 1] = add_assign(@, new)],
                  wklist |-> rest,
                  vals |-> [trans_vals EXCEPT ![tr_id + 1] = to_unit(new)],
                  ok |-> TRUE]
    IN  IF is_many(cur) THEN skip
        ELSE IF ~in_range(self.states, tgt_id) THEN [skip EXCEPT !.ok = FALSE]
        ELSE IF is_many(At(self.states, tgt_id)) THEN skip
        ELSE increase(eval_epsilon(self, tr_id))

\* the body of `while let Some(tr_id) = trans_wklist.pop()`, tr_id being
\* the n-th element of the worklist
eval_epsilons_pop(self, trans_wklist, trans_vals, n) ==
    LET tr_id  == trans_wklist[n]
        rest   == Without(trans_wklist, n)
        cur    == At(trans_vals, tr_id)
        tgt_id == target_id(At(self.epsilons, tr_id))
        skip   == [m |-> self, wklist |-> rest, vals |-> trans_vals,
                   ok |-> TRUE]
        increase(new) ==
            IF is_none(new) \/ (is_one(new) /\ is_one(cur)) THEN skip
            ELSE [m |-> [self EXCEPT !.states[tgt_id + 1] = add_assign(@, new)],
                  wklist |-> rest \o At(self.eps_out, tgt_id),
                  vals |-> [trans_vals EXCEPT ![tr_id + 1] = to_unit(new)],
                  ok |-> TRUE]
    IN  IF is_many(cur) THEN skip
        ELSE IF ~in_range(self.states, tgt_id) THEN [skip EXCEPT !.ok = FALSE]
        ELSE IF is_many(At(self.states, tgt_id)) THEN skip
        ELSE increase(eval_epsilon(self, tr_id))

\* the automata of the model, each with every slot vector
WInputs ==
    UNION { {[x EXCEPT !.states = sv] : sv \in SlotVectors(Len(x.states))} :
            x \in Automata }

\* eval_epsilons is entered on proto: the worklist holds every transition,
\* the recorded values are None; twin is what eval_epsilons leaves
WInit ==
    /\ debug \in BOOLEAN
    /\ proto \in WInputs
    /\ m = proto
    /\ strm = [n \in 1..Len(proto.epsilons) |-> n - 1]
    /\ single_out = [n \in 1..Len(proto.epsilons) |-> None]
    /\ twin = eval_epsilons(proto)
    /\ law = "pop"
    /\ panicked = FALSE
    /\ ncalls = 0
    /\ self1 = Unused /\ transducers = Unused /\ multi_out = Unused
    /\ call = Unused /\ out = Unused /\ tout = Unused

\* one iteration of the loop
Pop ==
    LET left(r, n) ==
            /\ m' = r.m
            /\ strm' = r.wklist
            /\ single_out' = r.vals
            /\ panicked' = ~r.ok
            /\ law' = IF n = Len(strm) THEN law ELSE "any"
    IN  /\ ~panicked
        /\ \E n \in DOMAIN strm :
              left(eval_epsilons_pop(m, strm, single_out, n), n)
        /\ UNCHANGED <<debug, proto, self1, transducers, multi_out, twin,
                       call, out, tout, ncalls>>

WNext == Pop

WSpec == WInit /\ [][WNext]_vars

\* C39: the slot vector eval_epsilons leaves does not depend on the order
\* in which the transitions are taken from the worklist: when the worklist
\* is empty, whatever the order was, every slot has the level (None, One,
\* Many) and, when it is One, the value that the order of the code gives
\* it; an order fails on a missing slot only where the code's order does.
C39_Confluence ==
    /\ (strm = <<>> /\ ~panicked) =>
          /\ twin.ok
          /\ \A s \in DOMAIN m.states :
                /\ Level(m.states[s]) = Level(twin.m.states[s])
                /\ is_one(m.states[s]) => m.states[s].v = twin.m.states[s].v
    /\ panicked => ~twin.ok

\* the cycle of test_loop_1 closed in an order other than the code's: the
\* slots were raised to One and then to Many
C39_Witness ==
    /\ strm = <<>> /\ ~panicked /\ law = "any"
    /\ proto.epsilons = test_loop_1.epsilons
    /\ is_one(proto.states[1]) /\ \A s \in 2..3 : is_none(proto.states[s])
    /\ \A s \in DOMAIN m.states : is_many(m.states[s])
    /\ m.states = twin.m.states

(***************************************************************************)
(* Frame of DataTransducer::init                                           *)
(***************************************************************************)
\* an edge from every source of every epsilon transition of x to its target
EpsilonEdges(x) ==
    UNION { {<<source_ids(x.epsilons[n])[k], target_id(x.epsilons[n])>> :
                k \in DOMAIN source_ids(x.epsilons[n])} :
            n \in DOMAIN x.epsilons }

\* C40: init(i) changes slot 0 and slots reached from slot 0 through epsilon
\* transitions only: every other slot, slot 1 included when no epsilon path
\* leads from slot 0 to it, holds after the call the value it held before.
C40_InitFrame ==
    [][(IsAutomaton(m) /\ call'.op = "init" /\ ~panicked') =>
          \A s \in DOMAIN m.states :
              (s - 1) \notin Reach(EpsilonEdges(m), {ISTATE_ID})
                  => m'.states[s] = m.states[s]]_vars

====
